---- MODULE Spec2Model ----
(***************************************************************************)
(* pmogollons:zod-schema -- the write interceptor that src/extendWithSchema *)
(* installs on Mongo.Collection.prototype: the collection binding           *)
(* (withSchema / withDates / withUser / withSoftDelete), the wrapped write  *)
(* methods insertAsync / updateAsync / upsertAsync, removeAsync and         *)
(* recoverAsync, the path resolver schemaFromPath and the nested-field      *)
(* validator.  The schema engine (zod) is modelled by what parse, partial,  *)
(* deepPartial and extend do on the descriptors the collections use.        *)
(***************************************************************************)
EXTENDS Integers, Sequences, FiniteSets, TLC

(***************************************************************************)
(* JavaScript values.  Every value is a record of the same four fields so   *)
(* that any two values can be compared: k is the runtime type, s a string   *)
(* payload, n an integer payload, e the ordered own entries <<key, val>> of *)
(* an object or an array (key order is insertion order, as Object.keys).    *)
(***************************************************************************)
Undefined == [k |-> "undefined", s |-> "", n |-> 0, e |-> << >>]

Str(x) == [k |-> "string", s |-> x, n |-> 0, e |-> << >>]

Num(i) == [k |-> "number", s |-> "", n |-> i, e |-> << >>]

\* the non-integer number i + 1/2
Frac(i) == [k |-> "number", s |-> "frac", n |-> i, e |-> << >>]

Bool(b) == [k |-> "boolean", s |-> "", n |-> IF b THEN 1 ELSE 0, e |-> << >>]

DateV(t) == [k |-> "date", s |-> "", n |-> t, e |-> << >>]

Obj(entries) == [k |-> "object", s |-> "", n |-> 0, e |-> entries]

KV(key, val) == [key |-> key, val |-> val]

RECURSIVE Indexed(_, _)
Indexed(vals, i) ==
  IF i > Len(vals) THEN << >>
  ELSE << KV(ToString(i - 1), vals[i]) >> \o Indexed(vals, i + 1)

Arr(vals) == [k |-> "array", s |-> "", n |-> 0, e |-> Indexed(vals, 1)]

Keys(x) == [i \in 1..Len(x.e) |-> x.e[i].key]

KeySet(x) == {x.e[i].key : i \in 1..Len(x.e)}

Has(x, key) == key \in KeySet(x)

\* x[key]: the value of an own property, undefined when there is none
Get(x, key) ==
  IF Has(x, key)
  THEN x.e[CHOOSE i \in 1..Len(x.e) : x.e[i].key = key].val
  ELSE Undefined

\* x[key] = val: an existing key keeps its position, a new key goes last
Put(x, key, val) ==
  IF Has(x, key)
  THEN [x EXCEPT !.e = [i \in 1..Len(x.e) |->
          IF x.e[i].key = key THEN KV(key, val) ELSE x.e[i]]]
  ELSE [x EXCEPT !.e = Append(x.e, KV(key, val))]

RECURSIVE Without(_, _)
Without(entries, key) ==
  IF entries = << >> THEN << >>
  ELSE IF Head(entries).key = key THEN Without(Tail(entries), key)
  ELSE << Head(entries) >> \o Without(Tail(entries), key)

\* delete x[key]
Delete(x, key) == [x EXCEPT !.e = Without(x.e, key)]

\* JavaScript truthiness of a value
Truthy(x) ==
  CASE x.k = "undefined" -> FALSE
    [] x.k = "null" -> FALSE
    [] x.k = "boolean" -> x.n = 1
    [] x.k = "number" -> ~(x.n = 0 /\ x.s = "")
    [] x.k = "string" -> x.s # ""
    [] OTHER -> TRUE

(***************************************************************************)
(* Schema descriptors of the schema engine.  t is the descriptor class,     *)
(* chk its refinement ("positive", "int", "length"), d the literal or the   *)
(* default value, sub the ordered children: the shape of an object, the     *)
(* element of an array, the innerType of a wrapper, the options of a union. *)
(***************************************************************************)
NoValue == Undefined

Desc(t, chk, d, sub) == [t |-> t, chk |-> chk, d |-> d, sub |-> sub]

\* the JavaScript undefined / null in a variable that holds a descriptor
NoSchema == Desc("undefined", "", NoValue, << >>)

ZString == Desc("ZodString", "", NoValue, << >>)

ZStringLength == Desc("ZodString", "length", NoValue, << >>)

ZNumber == Desc("ZodNumber", "", NoValue, << >>)

ZNumberPositive == Desc("ZodNumber", "positive", NoValue, << >>)

ZNumberInt == Desc("ZodNumber", "int", NoValue, << >>)

ZBoolean == Desc("ZodBoolean", "", NoValue, << >>)

ZDate == Desc("ZodDate", "", NoValue, << >>)

ZLiteral(v) == Desc("ZodLiteral", "", v, << >>)

ZObject(shape) == Desc("ZodObject", "", NoValue, shape)

ZArray(element) == Desc("ZodArray", "", NoValue, << KV("element", element) >>)

ZOptional(inner) == Desc("ZodOptional", "", NoValue, << KV("innerType", inner) >>)

ZDefault(inner, v) == Desc("ZodDefault", "", v, << KV("innerType", inner) >>)

ZUnion(options) == Desc("ZodUnion", "", NoValue, Indexed(options, 1))

ZRecord(valueType) == Desc("ZodRecord", "", NoValue, << KV("valueType", valueType) >>)

\* z.string().length(17) of withUser
UserIdLength == 17

\* schema.shape[key]: undefined when the shape has no such key
ShapeGet(sch, key) ==
  IF \E i \in 1..Len(sch.sub) : sch.sub[i].key = key
  THEN sch.sub[CHOOSE i \in 1..Len(sch.sub) : sch.sub[i].key = key].val
  ELSE NoSchema

ShapeKeys(sch) == {sch.sub[i].key : i \in 1..Len(sch.sub)}

\* ZodOptional.unwrap(), ZodArray.element
Inner(sch) == sch.sub[1].val

(***************************************************************************)
(* parse.  A result carries the engine's status (valid, dirty: a refinement *)
(* failed, aborted: the type is wrong), the issues in the order the engine  *)
(* raises them, each with its path from the parsed root, and the output.    *)
(***************************************************************************)
Issue(path, code) == [path |-> path, code |-> code]

Valid(data) == [st |-> "valid", issues |-> << >>, data |-> data]

Dirty(data, path, code) ==
  [st |-> "dirty", issues |-> << Issue(path, code) >>, data |-> data]

Aborted(path, code) ==
  [st |-> "aborted", issues |-> << Issue(path, code) >>, data |-> Undefined]

Worse(a, b) ==
  IF a = "aborted" \/ b = "aborted" THEN "aborted"
  ELSE IF a = "dirty" \/ b = "dirty" THEN "dirty"
  ELSE "valid"

\* i + 1/2 > 0 iff i >= 0
IsPositive(x) == IF x.s = "frac" THEN x.n >= 0 ELSE x.n > 0

RECURSIVE Parse(_, _, _)
RECURSIVE ParseShape(_, _, _, _)
RECURSIVE ParseElements(_, _, _, _)
RECURSIVE ParseRecord(_, _, _, _)
RECURSIVE ParseUnion(_, _, _, _)

\* ZodObject._parse, strip mode: every key of the shape is parsed, in shape
\* order; a key is written when its output is defined or the input has it
ParseShape(shape, x, path, i) ==
  IF i > Len(shape) THEN [st |-> "valid", issues |-> << >>, e |-> << >>]
  ELSE LET key == shape[i].key
           r == Parse(shape[i].val, Get(x, key), Append(path, key))
           rest == ParseShape(shape, x, path, i + 1)
       IN [st |-> Worse(r.st, rest.st),
           issues |-> r.issues \o rest.issues,
           e |-> (IF r.data.k # "undefined" \/ Has(x, key)
                  THEN << KV(key, r.data) >> ELSE << >>) \o rest.e]

\* ZodArray._parse: every element, with its index on the path
ParseElements(element, x, path, i) ==
  IF i > Len(x.e) THEN [st |-> "valid", issues |-> << >>, e |-> << >>]
  ELSE LET r == Parse(element, x.e[i].val, Append(path, x.e[i].key))
           rest == ParseElements(element, x, path, i + 1)
       IN [st |-> Worse(r.st, rest.st),
           issues |-> r.issues \o rest.issues,
           e |-> << KV(x.e[i].key, r.data) >> \o rest.e]

\* ZodRecord._parse with string keys: every own key of the input
ParseRecord(valueType, x, path, i) ==
  IF i > Len(x.e) THEN [st |-> "valid", issues |-> << >>, e |-> << >>]
  ELSE LET r == Parse(valueType, x.e[i].val, Append(path, x.e[i].key))
           rest == ParseRecord(valueType, x, path, i + 1)
       IN [st |-> Worse(r.st, rest.st),
           issues |-> r.issues \o rest.issues,
           e |-> << KV(x.e[i].key, r.data) >> \o rest.e]

\* ZodUnion._parse: the first valid option wins, else the first dirty one,
\* else one invalid_union issue at the union's own path
ParseUnion(options, x, path, i) ==
  IF i > Len(options) THEN Aborted(path, "invalid_union")
  ELSE LET r == Parse(options[i].val, x, path)
           rest == ParseUnion(options, x, path, i + 1)
       IN IF r.st = "valid" THEN r
          ELSE IF rest.st = "valid" THEN rest
          ELSE IF r.st = "dirty" THEN r
          ELSE rest

Parse(sch, x, path) ==
  CASE sch.t = "ZodString" ->
         IF x.k # "string" THEN Aborted(path, "invalid_type")
         ELSE IF sch.chk = "length" /\ Len(x.s) > UserIdLength
           THEN Dirty(x, path, "too_big")
         ELSE IF sch.chk = "length" /\ Len(x.s) < UserIdLength
           THEN Dirty(x, path, "too_small")
         ELSE Valid(x)
    [] sch.t = "ZodNumber" ->
         IF x.k # "number" THEN Aborted(path, "invalid_type")
         ELSE IF sch.chk = "int" /\ x.s = "frac"
           THEN Dirty(x, path, "invalid_type")
         ELSE IF sch.chk = "positive" /\ ~IsPositive(x)
           THEN Dirty(x, path, "too_small")
         ELSE Valid(x)
    [] sch.t = "ZodBoolean" ->
         IF x.k # "boolean" THEN Aborted(path, "invalid_type") ELSE Valid(x)
    [] sch.t = "ZodDate" ->
         IF x.k # "date" THEN Aborted(path, "invalid_type") ELSE Valid(x)
    [] sch.t = "ZodLiteral" ->
         IF x # sch.d THEN Aborted(path, "invalid_literal") ELSE Valid(x)
    [] sch.t = "ZodOptional" ->
         IF x.k = "undefined" THEN Valid(Undefined)
         ELSE Parse(Inner(sch), x, path)
    [] sch.t = "ZodDefault" ->
         Parse(Inner(sch), IF x.k = "undefined" THEN sch.d ELSE x, path)
    [] sch.t = "ZodArray" ->
         IF x.k # "array" THEN Aborted(path, "invalid_type")
         ELSE LET r == ParseElements(Inner(sch), x, path, 1)
              IN [st |-> r.st, issues |-> r.issues,
                  data |-> IF r.st = "aborted" THEN Undefined
                           ELSE [x EXCEPT !.e = r.e]]
    [] sch.t = "ZodObject" ->
         IF x.k # "object" THEN Aborted(path, "invalid_type")
         ELSE LET r == ParseShape(sch.sub, x, path, 1)
              IN [st |-> r.st, issues |-> r.issues,
                  data |-> IF r.st = "aborted" THEN Undefined ELSE Obj(r.e)]
    [] sch.t = "ZodRecord" ->
         IF x.k # "object" THEN Aborted(path, "invalid_type")
         ELSE LET r == ParseRecord(Inner(sch), x, path, 1)
              IN [st |-> r.st, issues |-> r.issues,
                  data |-> IF r.st = "aborted" THEN Undefined ELSE Obj(r.e)]
    [] sch.t = "ZodUnion" -> ParseUnion(sch.sub, x, path, 1)

\* schema.safeParse(x).success
Success(r) == r.st = "valid"

\* a $setOnInsert checked against the schema of an insert
asDeclared(sch) == sch

\* schema.partial(): every key of the shape optional, one level only
partial(sch) ==
  [sch EXCEPT !.sub = [i \in 1..Len(sch.sub) |->
     KV(sch.sub[i].key, ZOptional(sch.sub[i].val))]]

\* schema.deepPartial(): optional at every depth of objects and arrays
RECURSIVE deepPartialify(_)
deepPartialify(sch) ==
  CASE sch.t = "ZodObject" ->
         [sch EXCEPT !.sub = [i \in 1..Len(sch.sub) |->
            KV(sch.sub[i].key, ZOptional(deepPartialify(sch.sub[i].val)))]]
    [] sch.t = "ZodArray" -> ZArray(deepPartialify(Inner(sch)))
    [] sch.t = "ZodOptional" -> ZOptional(deepPartialify(Inner(sch)))
    [] OTHER -> sch

\* an update checked against the schema of an insert
wholeSchema(sch) == sch

deepPartial(sch) == deepPartialify(sch)

\* schema.extend(augmentation): {...shape, ...augmentation}
RECURSIVE extendShape(_, _)
extendShape(shape, augmentation) ==
  IF augmentation = << >> THEN shape
  ELSE LET a == Head(augmentation)
           has == \E i \in 1..Len(shape) : shape[i].key = a.key
       IN extendShape(
            IF has
            THEN [i \in 1..Len(shape) |->
                    IF shape[i].key = a.key THEN a ELSE shape[i]]
            ELSE Append(shape, a),
            Tail(augmentation))

extend(sch, augmentation) == [sch EXCEPT !.sub = extendShape(sch.sub, augmentation)]

(***************************************************************************)
(* Field paths.  A key of a document or of an operand is a string; split   *)
(* and join are the inverse conversions between a dotted key and its        *)
(* segments.                                                                *)
(***************************************************************************)
RECURSIVE Join(_)
Join(segs) ==
  IF segs = << >> THEN ""
  ELSE IF Len(segs) = 1 THEN segs[1]
  ELSE segs[1] \o "." \o Join(Tail(segs))

\* the field paths the clients name in documents and operands
FieldPaths ==
  {<< "name" >>, << "age" >>, << "profile" >>, << "tags" >>, << "scores" >>,
   << "meta" >>, << "services" >>, << "userId" >>, << "createdAt" >>,
   << "updatedAt" >>, << "isDeleted" >>, << "deletedAt" >>,
   << "otherField" >>, << "skipSchema" >>, << "miaw" >>,
   << "profile", "age" >>, << "profile", "address", "city" >>,
   << "profile", "address", "miaw" >>, << "miaw", "tags" >>,
   << "meta", "views" >>, << "meta", "views", "0" >>,
   << "tags", "0", "name" >>, << "scores", "0" >>, << "name", "first" >>,
   << "services", "token" >>}

\* path.split("."): the segments whose join is the path
SplitTable == [p \in {Join(q) : q \in FieldPaths} |->
                 CHOOSE q \in FieldPaths : Join(q) = p]

Split(path) == SplitTable[path]

\* key.includes(".")
HasDot(key) == Len(Split(key)) > 1

(***************************************************************************)
(* Errors.  ValidationError(details, summary) of src/ValidationError; a     *)
(* TypeError is what the runtime raises on a property read of undefined.    *)
(***************************************************************************)
NoError == [type |-> "none", summary |-> "", details |-> << >>]

Detail(name, type) == [name |-> name, type |-> type]

ValidationError(details, summary) ==
  [type |-> "ValidationError", summary |-> summary, details |-> details]

TypeError == [type |-> "TypeError", summary |-> "", details |-> << >>]

MeteorError(code) == [type |-> "Meteor.Error", summary |-> code, details |-> << >>]

\* a catch block that would name an issue by the last segment of its path
FromZodErrorLeaf(issues) ==
  ValidationError([i \in 1..Len(issues) |->
                     Detail(IF issues[i].path = << >> THEN ""
                            ELSE issues[i].path[Len(issues[i].path)],
                            issues[i].code)],
                  "Collection schema validation error")

\* the catch block: a ZodError becomes a ValidationError whose details map
\* each issue to {name: [...path, ...keys].join("."), type: code}
FromZodError(issues) ==
  ValidationError([i \in 1..Len(issues) |->
                     Detail(Join(issues[i].path), issues[i].code)],
                  "Collection schema validation error")

(***************************************************************************)
(* The path resolver and the two field checks.                              *)
(***************************************************************************)
Resolved(sch) == [threw |-> FALSE, schema |-> sch]

\* reading .shape[segment] of a descriptor that has no shape
ResolveThrew == [threw |-> TRUE, schema |-> NoSchema]

RECURSIVE Traverse(_, _, _)
Traverse(currentSchema, pathSegments, i) ==
  IF i > Len(pathSegments)
  THEN Resolved(IF currentSchema.t = "ZodOptional"
                THEN Inner(currentSchema) ELSE currentSchema)
  ELSE IF currentSchema.t = "ZodObject"
    THEN Traverse(ShapeGet(currentSchema, pathSegments[i]), pathSegments, i + 1)
  ELSE IF currentSchema.t = "ZodOptional"
    THEN IF Inner(currentSchema).t = "ZodObject"
         THEN Traverse(ShapeGet(Inner(currentSchema), pathSegments[i]),
                       pathSegments, i + 1)
         ELSE ResolveThrew
  ELSE Resolved(NoSchema)

schemaFromPath(schema, path) == Traverse(schema, Split(path), 1)

\* the error checkFieldExists throws, NoError when it returns
checkFieldExists(schema, field) ==
  IF schema.t = "undefined"
  THEN ValidationError(<< Detail(field, "invalid_field") >>, "Invalid field")
  ELSE NoError

\* the error checkFieldIsArray throws, NoError when it returns
checkFieldIsArray(schema, field) ==
  IF schema.t # "ZodArray"
  THEN ValidationError(<< Detail(field, "invalid_array_field") >>,
                       "Invalid array field")
  ELSE NoError

(***************************************************************************)
(* The lifecycle hooks.  Both work on the argument objects in place.        *)
(***************************************************************************)
\* args[1][key] = args[1][key] || {}
OrEmpty(x) == IF Truthy(x) THEN x ELSE Obj(<< >>)

\* delete args[1]["$set"]?.userId and the like: nothing when there is no $set
DeleteIn(modifier, op, key) ==
  IF Get(modifier, op).k = "object"
  THEN Put(modifier, op, Delete(Get(modifier, op), key))
  ELSE modifier

SetIn(modifier, op, key, val) == Put(modifier, op, Put(OrEmpty(Get(modifier, op)), key, val))

\* extendWithUser(args, {isUpsert, isUpdate}); userId is what Meteor.userId()
\* returns, undefined when there is no user in context
extendWithUser(args, isUpsert, isUpdate, userId) ==
  IF ~Truthy(userId) THEN args
  ELSE IF isUpsert
    THEN [args EXCEPT ![2] = SetIn(args[2], "$setOnInsert", "userId", userId)]
  ELSE IF isUpdate
    THEN [args EXCEPT ![2] = DeleteIn(args[2], "$set", "userId")]
  ELSE [args EXCEPT ![1] = Put(args[1], "userId", userId)]

\* extendWithDates(args, {isUpsert, isUpdate}); now is new Date()
extendWithDates(args, isUpsert, isUpdate, now) ==
  IF isUpsert
  THEN [args EXCEPT ![2] =
          SetIn(SetIn(SetIn(args[2], "$setOnInsert", "createdAt", now),
                      "$setOnInsert", "updatedAt", now),
                "$set", "updatedAt", now)]
  ELSE IF isUpdate
    THEN [args EXCEPT ![2] =
            DeleteIn(SetIn(args[2], "$set", "updatedAt", now), "$set", "createdAt")]
  ELSE [args EXCEPT ![1] = Put(Put(args[1], "createdAt", now), "updatedAt", now)]

(***************************************************************************)
(* The per-operator checks of a plain update.  A step is the modifier as    *)
(* rewritten so far (args[1], rewritten in place) and the error thrown, if  *)
(* any; a throw ends the forEach loops.  Each check is written as the       *)
(* statement that computes a value and the statements that follow it.       *)
(***************************************************************************)
Step(modifier, error) == [modifier |-> modifier, error |-> error]

\* z.union([z.literal(1), z.literal(-1)])
SortDirection == ZUnion(<< ZLiteral(Num(1)), ZLiteral(Num(-1)) >>)

\* the schema of an operand that carries $each (lines 141-150)
EachSchema(fieldSchema) ==
  ZObject(<< KV("$each", fieldSchema),
             KV("$position", ZOptional(ZNumberInt)),
             KV("$slice", ZOptional(ZNumberInt)),
             KV("$sort", ZOptional(ZUnion(<< ZRecord(SortDirection),
                                             ZLiteral(Num(1)),
                                             ZLiteral(Num(-1)) >>))) >>)

elementSchema(fieldSchema) ==
  IF fieldSchema.t = "ZodArray" THEN Inner(fieldSchema)
  ELSE Inner(Inner(fieldSchema))

\* an operand always parsed as one element
elementOnly(fieldSchema, operand) == elementSchema(fieldSchema)

\* lines 140-155: the schema the operand of $push / $addToSet is parsed with
operandSchema(fieldSchema, operand) ==
  IF Truthy(Get(operand, "$each")) THEN EachSchema(fieldSchema)
  ELSE elementSchema(fieldSchema)

\* args[1][key][field] = <the parse>, or the ZodError the parse throws
pushParsed(p, modifier, key, field) ==
  IF ~Success(p) THEN Step(modifier, FromZodError(p.issues))
  ELSE Step(Put(modifier, key, Put(Get(modifier, key), field, p.data)), NoError)

\* lines 135-155, after fieldSchema = schemaFromPath(_schema, field)
pushResolved(r, modifier, key, field) ==
  IF r.threw THEN Step(modifier, TypeError)
  ELSE IF checkFieldExists(r.schema, field) # NoError
    THEN Step(modifier, checkFieldExists(r.schema, field))
  ELSE IF checkFieldIsArray(r.schema, field) # NoError
    THEN Step(modifier, checkFieldIsArray(r.schema, field))
  ELSE pushParsed(Parse(operandSchema(r.schema, Get(Get(modifier, key), field)),
                        Get(Get(modifier, key), field), << >>),
                  modifier, key, field)

\* the body of fields.forEach under $push / $addToSet, for one field
pushField(schema, modifier, key, field) ==
  pushResolved(schemaFromPath(schema, field), modifier, key, field)

\* [1, -1].includes(value)
IsPopValue(x) == x = Num(1) \/ x = Num(-1)

\* lines 163-172, after fieldSchema = schemaFromPath(_schema, field)
popResolved(r, modifier, key, field) ==
  IF r.threw THEN Step(modifier, TypeError)
  ELSE IF checkFieldExists(r.schema, field) # NoError
    THEN Step(modifier, checkFieldExists(r.schema, field))
  ELSE IF checkFieldIsArray(r.schema, field) # NoError
    THEN Step(modifier, checkFieldIsArray(r.schema, field))
  ELSE IF ~IsPopValue(Get(Get(modifier, key), field))
    THEN Step(modifier,
              ValidationError(<< Detail(key, "invalid_array_pop_operation") >>,
                              "Invalid array $pop operation"))
  ELSE Step(modifier, NoError)

\* the body of fields.forEach under $pop, for one field
popField(schema, modifier, key, field) ==
  popResolved(schemaFromPath(schema, field), modifier, key, field)

\* fields.forEach(...): the fields of the operand in key order, to the first throw
RECURSIVE forEachField(_, _, _, _, _)
nextField(one, schema, key, fields, i) ==
  IF one.error # NoError THEN one
  ELSE forEachField(schema, one.modifier, key, fields, i + 1)

forEachField(schema, modifier, key, fields, i) ==
  IF i > Len(fields) THEN Step(modifier, NoError)
  ELSE nextField(IF key = "$pop"
                 THEN popField(schema, modifier, key, fields[i])
                 ELSE pushField(schema, modifier, key, fields[i]),
                 schema, key, fields, i)

\* a collection of nested errors that would put the later key first
nestedReversed(p, field, rest) ==
  IF Success(p)
  THEN [rest EXCEPT !.validNestedFields = << KV(field, p.data) >> \o @]
  ELSE [rest EXCEPT !.errors =
          @ \o [j \in 1..Len(p.issues) |-> Detail(field, p.issues[j].code)]]

\* lines 270-282: safeParse of one dotted key and what is kept of it
nestedParsed(p, field, rest) ==
  IF Success(p)
  THEN [rest EXCEPT !.validNestedFields = << KV(field, p.data) >> \o @]
  ELSE [rest EXCEPT !.errors =
          [j \in 1..Len(p.issues) |-> Detail(field, p.issues[j].code)] \o @]

\* lines 264-268: an unresolved path is skipped
nestedResolved(r, field, value, rest) ==
  IF r.threw THEN [threw |-> TRUE, validNestedFields |-> << >>, errors |-> << >>]
  ELSE IF r.schema.t = "undefined" THEN rest
  ELSE nestedParsed(Parse(r.schema, value, << >>), field, rest)

\* validateNestedFields(object, schema): the dotted keys of the operand, in
\* key order
RECURSIVE validateNestedFields(_, _, _)
nestedField(object, schema, i, rest) ==
  IF ~HasDot(object.e[i].key) THEN rest
  ELSE nestedResolved(schemaFromPath(schema, object.e[i].key),
                      object.e[i].key, object.e[i].val, rest)

validateNestedFields(object, schema, i) ==
  IF i > Len(object.e)
  THEN [threw |-> FALSE, validNestedFields |-> << >>, errors |-> << >>]
  ELSE nestedField(object, schema, i, validateNestedFields(object, schema, i + 1))

\* Object.assign(target, source)
RECURSIVE ObjectAssign(_, _)
ObjectAssign(target, entries) ==
  IF entries = << >> THEN target
  ELSE ObjectAssign(Put(target, Head(entries).key, Head(entries).val), Tail(entries))

\* the list of ./utils/unsupportedOps
unsupportedOps ==
  {"$unset", "$inc", "$mul", "$rename", "$min", "$max", "$currentDate",
   "$", "$[]", "$pull", "$pullAll", "$bit"}

\* lines 180-184, after validateNestedFields
operandNested(nested, newValue, modifier, key) ==
  IF nested.threw THEN Step(modifier, TypeError)
  ELSE IF Len(nested.errors) > 0
    THEN Step(modifier,
              ValidationError(nested.errors, "Nested fields validation error"))
  ELSE Step(Put(modifier, key, ObjectAssign(newValue, nested.validNestedFields)),
            NoError)

\* lines 177-184, after schemaToCheck.parse(args[1][key])
operandParsed(p, schema, modifier, key) ==
  IF ~Success(p) THEN Step(modifier, FromZodError(p.issues))
  ELSE operandNested(validateNestedFields(Get(modifier, key), schema, 1),
                     p.data, modifier, key)

\* the last branch of the operator loop: $set and every other operator
checkOperand(schema, schemaToCheck, modifier, key) ==
  operandParsed(Parse(schemaToCheck, Get(modifier, key), << >>),
                schema, modifier, key)

\* an operator loop without the unsupportedOps branch
checkEveryOperator(schema, schemaToCheck, modifier, key) ==
  IF key = "$push" \/ key = "$addToSet" \/ key = "$pop"
  THEN forEachField(schema, modifier, key, Keys(Get(modifier, key)), 1)
  ELSE checkOperand(schema, schemaToCheck, modifier, key)

\* the body of Object.keys(args[1]).forEach, for one operator key
checkOperator(schema, schemaToCheck, modifier, key) ==
  IF key = "$push" \/ key = "$addToSet" \/ key = "$pop"
  THEN forEachField(schema, modifier, key, Keys(Get(modifier, key)), 1)
  ELSE IF key \in unsupportedOps THEN Step(modifier, NoError)
  ELSE checkOperand(schema, schemaToCheck, modifier, key)

RECURSIVE forEachOperator(_, _, _, _, _)
nextOperator(one, schema, schemaToCheck, keys, i) ==
  IF one.error # NoError THEN one
  ELSE forEachOperator(schema, schemaToCheck, one.modifier, keys, i + 1)

forEachOperator(schema, schemaToCheck, modifier, keys, i) ==
  IF i > Len(keys) THEN Step(modifier, NoError)
  ELSE nextOperator(checkOperator(schema, schemaToCheck, modifier, keys[i]),
                    schema, schemaToCheck, keys, i)

\* if (args[1][op]) args[1][op] = variant.parse(args[1][op])
parseIfSet(variant, modifier, op) ==
  IF Truthy(Get(modifier, op)) THEN Parse(variant, Get(modifier, op), << >>)
  ELSE Valid(Undefined)

putIfSet(modifier, op, data) ==
  IF Truthy(Get(modifier, op)) THEN Put(modifier, op, data) ELSE modifier

\* lines 124-126
upsertSetOnInsert(soi, modifier) ==
  IF ~Success(soi) THEN Step(modifier, FromZodError(soi.issues))
  ELSE Step(putIfSet(modifier, "$setOnInsert", soi.data), NoError)

\* lines 120-126, after the parse of $set
upsertSet(set, schema, modifier) ==
  IF ~Success(set) THEN Step(modifier, FromZodError(set.issues))
  ELSE upsertSetOnInsert(
         parseIfSet(partial(schema), modifier, "$setOnInsert"),
         putIfSet(modifier, "$set", set.data))

\* an upsert that would go through the operator loop of a plain update
checkAsPlain(schema, modifier) ==
  forEachOperator(schema, deepPartial(schema), modifier, Keys(modifier), 1)

\* the isUpsert branch: $set against deepPartial, $setOnInsert against partial
checkUpsert(schema, modifier) ==
  upsertSet(parseIfSet(deepPartial(schema), modifier, "$set"), schema, modifier)

(***************************************************************************)
(* The wrapper installed on insertAsync, updateAsync and upsertAsync.       *)
(* Its outcome: the calls made to the original methods (method.apply), the  *)
(* argument objects as the caller holds them afterwards, and the error      *)
(* thrown.                                                                  *)
(***************************************************************************)
Apply(method, args) == [method |-> method, args |-> args]

Outcome(calls, caller, error) == [calls |-> calls, caller |-> caller, error |-> error]

\* method.apply(collection, args) with nothing rewritten
PassThrough(methodName, args) == Outcome(<< Apply(methodName, args) >>, args, NoError)

\* a wrapper that would not read the options
optionsIgnored(args) == FALSE

\* options?.skipSchema, options being the last argument
skipSchema(args) == Truthy(Get(args[Len(args)], "skipSchema"))

\* isUpdate && args[2]?.hasOwnProperty("upsert") && args[2]["upsert"]
IsUpsert(isUpdate, args) ==
  isUpdate /\ Len(args) >= 3 /\ Has(args[3], "upsert") /\ Truthy(Get(args[3], "upsert"))

\* Object.keys(first)[0].split(".")[0] === "services", first being
\* Object.values(args[1])[0]: Object.keys(undefined) and undefined.split throw
servicesFirst(first) ==
  IF first.k = "undefined" \/ first.k = "null"
  THEN [threw |-> TRUE, value |-> FALSE]
  ELSE IF first.k = "string" /\ first.s # ""
    THEN [threw |-> FALSE, value |-> FALSE]
  ELSE IF Len(first.e) = 0 THEN [threw |-> TRUE, value |-> FALSE]
  ELSE [threw |-> FALSE, value |-> Split(first.e[1].key)[1] = "services"]

servicesKey(modifier) ==
  servicesFirst(IF Len(modifier.e) = 0 THEN Undefined ELSE modifier.e[1].val)

\* the hooks of lines 108-114
hookedUser(c, args, isUpsert, isUpdate, userId) ==
  IF c._withUser THEN extendWithUser(args, isUpsert, isUpdate, userId) ELSE args

hooked(c, args, isUpsert, isUpdate, userId, now) ==
  hookedUser(c,
             IF c._withDates
             THEN extendWithDates(args, isUpsert, isUpdate, now) ELSE args,
             isUpsert, isUpdate, userId)

\* an update whose throw would not stop method.apply
updateForwarded(step, methodName, args) ==
  Outcome(<< Apply(methodName, [args EXCEPT ![2] = step.modifier]) >>,
          [args EXCEPT ![2] = step.modifier], step.error)

\* the end of the wrapper for an update: the throw, or method.apply
updateChecked(step, methodName, args) ==
  IF step.error # NoError
  THEN Outcome(<< >>, [args EXCEPT ![2] = step.modifier], step.error)
  ELSE Outcome(<< Apply(methodName, [args EXCEPT ![2] = step.modifier]) >>,
               [args EXCEPT ![2] = step.modifier], NoError)

\* the try block of an update
validateUpdate(methodName, schema, args, isUpsert) ==
  updateChecked(IF isUpsert THEN checkUpsert(schema, args[2])
                ELSE forEachOperator(schema, deepPartial(schema), args[2],
                                     Keys(args[2]), 1),
                methodName, args)

\* the end of the wrapper for an insert: the throw, or method.apply
insertParsed(p, methodName, args) ==
  IF ~Success(p) THEN Outcome(<< >>, args, FromZodError(p.issues))
  ELSE Outcome(<< Apply(methodName, [args EXCEPT ![1] = p.data]) >>, args, NoError)

\* an insert that would check the dotted keys of the document as a plain
\* update checks those of a $set
validateInsertNested(methodName, schema, args) ==
  LET nested == validateNestedFields(args[1], schema, 1)
      p == Parse(schema, args[1], << >>)
  IN IF nested.threw THEN Outcome(<< >>, args, TypeError)
     ELSE IF Len(nested.errors) > 0
       THEN Outcome(<< >>, args,
                    ValidationError(nested.errors, "Nested fields validation error"))
     ELSE insertParsed(IF Success(p)
                       THEN [p EXCEPT !.data = ObjectAssign(@, nested.validNestedFields)]
                       ELSE p,
                       methodName, args)

\* the try block of an insert
validateInsert(methodName, schema, args) ==
  insertParsed(Parse(schema, args[1], << >>), methodName, args)

\* lines 108-207: hooks, then the checks
validated(methodName, c, args, isUpsert, isUpdate) ==
  IF isUpdate THEN validateUpdate(methodName, c._schema, args, isUpsert)
  ELSE validateInsert(methodName, c._schema, args)

\* Mongo.Collection.prototype[methodName] = function(...args)
write(methodName, name, c, args, userId, now) ==
  IF skipSchema(args) THEN PassThrough(methodName, args)
  ELSE IF c._schema.t = "undefined" THEN PassThrough(methodName, args)
  ELSE IF methodName = "updateAsync" /\ name = "users" /\ servicesKey(args[2]).threw
    THEN Outcome(<< >>, args, TypeError)
  ELSE IF (methodName = "updateAsync" /\ name = "users" /\ servicesKey(args[2]).value)
          \/ methodName = "upsertAsync"
    THEN PassThrough(methodName, args)
  ELSE validated(methodName, c,
                 hooked(c, args, IsUpsert(methodName = "updateAsync", args),
                        methodName = "updateAsync", userId, now),
                 IsUpsert(methodName = "updateAsync", args),
                 methodName = "updateAsync")

(***************************************************************************)
(* The collection binding and its declaration methods.                      *)
(***************************************************************************)
\* the prototype's _schema: null, _withDates: false, _softDelete: false
Unbound ==
  [_schema |-> NoSchema, _withUser |-> FALSE, _withDates |-> FALSE,
   _softDelete |-> FALSE]

UserFields == << KV("userId", ZStringLength) >>

DateFields == << KV("createdAt", ZDate), KV("updatedAt", ZDate) >>

SoftDeleteFields ==
  << KV("isDeleted", ZDefault(ZBoolean, Bool(FALSE))),
     KV("deletedAt", ZOptional(ZDate)) >>

\* a declaration that would bind its own fields in place of the schema
Replaced(c, fields) ==
  [binding |-> [c EXCEPT !._schema = ZObject(fields)], error |-> NoError]

\* this._schema.extend(fields): a TypeError when _schema is null
Extended(c, fields) ==
  IF c._schema.t = "undefined" THEN [binding |-> c, error |-> TypeError]
  ELSE [binding |-> [c EXCEPT !._schema = extend(c._schema, fields)],
        error |-> NoError]

withSchema(c, schema) == [binding |-> [c EXCEPT !._schema = schema], error |-> NoError]

withUser(c) == Extended([c EXCEPT !._withUser = TRUE], UserFields)

withDates(c) == Extended([c EXCEPT !._withDates = TRUE], DateFields)

withSoftDelete(c) == Extended([c EXCEPT !._softDelete = TRUE], SoftDeleteFields)

\* what removeAsync / recoverAsync return from their updateAsync call
viaUpdate(o, params) == Outcome(o.calls, << params >>, o.error)

SoftDeleteModifier(now) ==
  Obj(<< KV("$set", Obj(<< KV("isDeleted", Bool(TRUE)), KV("deletedAt", now) >>)) >>)

RecoverModifier ==
  Obj(<< KV("$unset", Obj(<< KV("deletedAt", Bool(TRUE)) >>)),
         KV("$set", Obj(<< KV("isDeleted", Bool(FALSE)) >>)) >>)

\* a removeAsync that would not look at _softDelete
removeAlways(name, c, params, userId, now) ==
  Outcome(<< Apply("removeAsync", << params >>) >>, << params >>, NoError)

\* removeAsync(params): a soft delete is an update through the wrapper
removeAsync(name, c, params, userId, now) ==
  IF c._softDelete
  THEN viaUpdate(write("updateAsync", name, c, << params, SoftDeleteModifier(now) >>,
                       userId, now),
                 params)
  ELSE Outcome(<< Apply("removeAsync", << params >>) >>, << params >>, NoError)

\* recoverAsync(params)
recoverAsync(name, c, params, userId, now) ==
  IF ~c._softDelete
  THEN Outcome(<< >>, << params >>, MeteorError("SOFT_DELETE_DISABLED"))
  ELSE viaUpdate(write("updateAsync", name, c, << params, RecoverModifier >>,
                       userId, now),
                 params)

(***************************************************************************)
(* The clients' inputs: one collection schema, the documents and the        *)
(* modifiers they send.                                                     *)
(***************************************************************************)
\* the schema the application declares
PersonSchema ==
  ZObject(<< KV("name", ZString),
             KV("age", ZNumberPositive),
             KV("scores", ZArray(ZNumber)),
             KV("profile",
                ZOptional(ZObject(<< KV("age", ZNumberPositive),
                                     KV("address",
                                        ZObject(<< KV("city", ZString) >>)) >>))),
             KV("tags", ZOptional(ZArray(ZObject(<< KV("name", ZString) >>)))),
             KV("meta",
                ZOptional(ZObject(<< KV("views", ZOptional(ZArray(ZNumber))) >>))),
             KV("services",
                ZOptional(ZObject(<< KV("token", ZOptional(ZString)) >>))) >>)

Schemas == {PersonSchema}

CollectionNames == {"test", "users"}

\* what Meteor.userId() can return: a 17-character id, or nothing
AmbientUser == Str("aaaaaaaaaaaaaaaaa")

Users == {Undefined, AmbientUser}

ClientUser == Str("bbbbbbbbbbbbbbbbb")

\* what new Date() can return; earlier dates come from the client
Times == {DateV(2), DateV(3)}

ClientDate == DateV(1)

Selector == Str("id1")

\* sequences without repetition of at most n members of S
RECURSIVE Arrangements(_, _)
Arrangements(S, n) ==
  IF n = 0 THEN {<< >>}
  ELSE {<< >>} \cup
       UNION {{<< x >> \o q : q \in Arrangements(S \ {x}, n - 1)} : x \in S}

\* the entries among `entries` whose keys are pairwise distinct
DistinctKeys(entries) ==
  \A i, j \in 1..Len(entries) : entries[i].key = entries[j].key => i = j

MaxExtra == 1

MaxFields == 2

John == KV("name", Str("John"))

Scores == KV("scores", Arr(<< Num(10) >>))

\* documents over the three required fields: valid, with an undeclared
\* field, and failing in one or two of the required fields
BaseDocs ==
  {Obj(<< John, KV("age", Num(30)), Scores >>),
   Obj(<< KV("age", Num(30)), Scores, John >>),
   Obj(<< John, KV("miaw", Str("miaw")), KV("age", Num(30)), Scores >>),
   Obj(<< John, KV("age", Num(-5)), Scores >>),
   Obj(<< John, KV("age", Str("x")), Scores >>),
   Obj(<< John, Scores >>),
   Obj(<< KV("age", Str("x")), KV("name", Num(5)), Scores >>),
   Obj(<< John, KV("age", Num(30)), KV("scores", Arr(<< Num(10), Str("x") >>)) >>)}

\* further fields a client may add: declared and undeclared, valid and not
ExtraFields ==
  {KV("otherField", Str("miaw")),
   KV("profile", Obj(<< KV("age", Num(21)), KV("miaw", Str("miaw")),
                        KV("address", Obj(<< KV("city", Str("Barcelona")),
                                             KV("miaw", Str("miaw")) >>)) >>)),
   KV("profile", Obj(<< KV("address", Obj(<< KV("city", Num(123)) >>)),
                        KV("age", Num(-1)) >>)),
   KV("tags", Arr(<< Obj(<< KV("name", Str("tag1")), KV("miaw", Str("miaw")) >>) >>)),
   KV("tags", Arr(<< Obj(<< KV("miaw", Str("miaw")) >>) >>)),
   KV("meta.views", Arr(<< Num(1) >>)),
   KV("profile.age", Num(-21)),
   KV("userId", ClientUser),
   KV("createdAt", ClientDate),
   KV("skipSchema", Bool(TRUE))}

FieldLists(candidates, n) == {q \in Arrangements(candidates, n) : DistinctKeys(q)}

InsertDocs ==
  {[d EXCEPT !.e = @ \o x] : d \in BaseDocs, x \in FieldLists(ExtraFields, MaxExtra)}

\* the options argument of a write: none, or one of these
SkipOption == Obj(<< KV("skipSchema", Bool(TRUE)) >>)

UpsertOption == Obj(<< KV("upsert", Bool(TRUE)) >>)

MultiOption == Obj(<< KV("multi", Bool(TRUE)), KV("upsert", Bool(FALSE)) >>)

Tag(name) == Obj(<< KV("name", Str(name)), KV("miaw", Str("miaw")) >>)

\* the fields a client may name under each operator, with their operands
Candidates(op) ==
  CASE op = "$set" ->
         {KV("age", Num(31)), KV("age", Str("x")),
          KV("profile.age", Num(22)), KV("profile.age", Num(-21)),
          KV("profile.address.city", Num(123)),
          KV("profile.address.miaw", Str("Madrid")),
          KV("profile", Obj(<< KV("age", Num(21)), KV("miaw", Str("miaw")) >>)),
          KV("scores.0", Num(5)), KV("tags.0.name", Str("tag0")),
          KV("userId", ClientUser)}
    [] op = "$push" ->
         {KV("tags", Tag("tag2")), KV("tags", Obj(<< KV("miaw", Str("miaw")) >>)),
          KV("scores", Num(1)), KV("scores", Str("x")),
          KV("name", Str("invalid")), KV("miaw.tags", Num(1)),
          KV("meta.views.0", Num(1))}
    [] op = "$each" ->
         {KV("tags", Obj(<< KV("$each", Arr(<< Tag("tag2"), Tag("tag3") >>)),
                            KV("$sort", Num(-1)), KV("$slice", Num(3)),
                            KV("miaw", Str("miaw")) >>)),
          KV("tags", Obj(<< KV("$each", Arr(<< Tag("tag4") >>)),
                            KV("$position", Num(2)),
                            KV("$sort", Obj(<< KV("name", Num(1)) >>)) >>)),
          KV("scores", Obj(<< KV("$each", Arr(<< >>)) >>)),
          KV("scores", Obj(<< KV("$each", Arr(<< Num(1), Str("x") >>)) >>)),
          KV("scores", Obj(<< KV("$each", Arr(<< Num(1) >>)),
                              KV("$position", Frac(1)) >>)),
          KV("scores", Obj(<< KV("$each", Arr(<< Num(1) >>)),
                              KV("$slice", Frac(-2)) >>)),
          KV("scores", Obj(<< KV("$each", Arr(<< Num(1) >>)),
                              KV("$sort", Num(2)) >>)),
          KV("tags", Obj(<< KV("$each", Arr(<< Tag("tag5") >>)),
                            KV("$sort", Obj(<< KV("name", Num(0)) >>)) >>))}
    [] op = "$addToSet" ->
         {KV("tags", Tag("tag2")), KV("scores", Str("x")),
          KV("name", Str("invalid")), KV("miaw.tags", Num(1)),
          KV("scores", Obj(<< KV("$each", Arr(<< Num(1), Num(2) >>)) >>))}
    [] op = "$pop" ->
         {KV("scores", Num(1)), KV("tags", Num(-1)), KV("tags", Num(2)),
          KV("scores", Str("1")), KV("name", Num(2)), KV("miaw.tags", Num(0)),
          KV("meta.views.0", Num(1))}
    [] op = "$inc" ->
         {KV("age", Num(1)), KV("age", Str("x")), KV("otherField", Num(1)),
          KV("scores.0", Num(1)), KV("meta.views.0", Num(1))}
    [] op = "$unset" ->
         {KV("name", Bool(TRUE)), KV("miaw.tags", Str(""))}
    [] op = "$pull" ->
         {KV("tags", Obj(<< KV("name", Str("tag2")) >>)), KV("name", Num(1))}
    [] op = "$setOnInsert" ->
         {KV("name", Str("Jane")), KV("age", Str("x")), KV("scores", Arr(<< >>))}

Operators == {"$set", "$push", "$addToSet", "$pop", "$inc", "$unset", "$pull",
              "$setOnInsert"}

\* one operator over at most MaxFields fields
SingleOperator ==
  UNION {{Obj(<< KV(op, Obj(q)) >>) : q \in FieldLists(Candidates(op), MaxFields)} :
           op \in Operators}

\* $push / $addToSet of an operand that carries $each, alone or after
\* another field of the same operator
EachOperator ==
  {Obj(<< KV(op, Obj(q[1] \o << q[2] >>)) >>) :
     op \in {"$push", "$addToSet"},
     q \in {r \in {<< >>, << KV("name", Str("invalid")) >>,
                    << KV("scores", Num(1)) >>, << KV("tags", Tag("tag1")) >>}
                   \X Candidates("$each") :
              DistinctKeys(r[1] \o << r[2] >>)}}

\* two operators, each over one field
Companions ==
  {KV("$set", Obj(<< KV("name", Str("Jane")) >>)),
   KV("$set", Obj(<< KV("age", Str("x")) >>)),
   KV("$set", Obj(<< KV("profile.age", Num(-21)) >>)),
   KV("$set", Obj(<< KV("profile.address.miaw", Str("Madrid")),
                     KV("otherField", Str("miaw")) >>)),
   KV("$push", Obj(<< KV("tags", Tag("tag2")) >>)),
   KV("$push", Obj(<< KV("name", Str("invalid")) >>)),
   KV("$pop", Obj(<< KV("scores", Num(1)) >>)),
   KV("$pop", Obj(<< KV("tags", Num(2)) >>)),
   KV("$inc", Obj(<< KV("otherField", Num(1)) >>)),
   KV("$unset", Obj(<< KV("services.token", Bool(TRUE)) >>)),
   KV("$set", Obj(<< KV("services.token", Str("t")) >>)),
   KV("skipSchema", Bool(TRUE))}

TwoOperators == {Obj(q) : q \in {r \in FieldLists(Companions, 2) : Len(r) = 2}}

\* a $set of two dotted fields that fail their checks and a third field
SetOfThree ==
  {Obj(<< KV("$set", Obj(<< KV("profile.address.city", Num(123)),
                            KV("profile.age", Num(-21)), third >>)) >>) :
     third \in {KV("age", Str("x")), KV("tags.0.name", Str("tag0")),
                KV("name", Str("Jane"))}}

\* the modifiers of plain updates
Modifiers == SingleOperator \cup EachOperator \cup TwoOperators \cup SetOfThree

\* the modifiers sent with {upsert: true}
UpsertModifiers ==
  {Obj(q) : q \in FieldLists(
     {KV("$set", Obj(<< KV("name", Str("Johny")) >>)),
      KV("$set", Obj(<< KV("age", Str("x")), KV("meta.views", Arr(<< Num(1) >>)) >>)),
      KV("$set", Obj(<< KV("profile", Obj(<< KV("age", Num(21)) >>)) >>)),
      KV("$set", Obj(<< KV("profile.age", Num(-21)), KV("name", Str("Jane")) >>)),
      KV("$setOnInsert", Obj(<< KV("age", Num(1)), KV("scores", Arr(<< >>)) >>)),
      KV("$setOnInsert", Obj(<< KV("profile.address.city", Num(123)),
                                KV("age", Num(1)) >>)),
      KV("$setOnInsert", Obj(<< KV("name", Str("John")), KV("age", Num(1)),
                                KV("scores", Arr(<< >>)), KV("otherField", Num(1)) >>)),
      KV("$setOnInsert", Obj(<< KV("profile", Obj(<< KV("age", Num(21)) >>)) >>)),
      KV("$push", Obj(<< KV("name", Str("invalid")) >>)),
      KV("$inc", Obj(<< KV("age", Num(1)) >>))}, 2)}

\* the modifiers sent with {skipSchema: true}
SkippedModifiers ==
  {Obj(<< KV("$set", Obj(<< KV("age", Str("31")), KV("otherField", Num(1)) >>)) >>),
   Obj(<< KV("$push", Obj(<< KV("name", Str("invalid")) >>)) >>),
   Obj(<< >>)}

\* the arguments of the updateAsync calls
UpdateArgs ==
  {<< Selector, m >> : m \in Modifiers \cup {Obj(<< >>)}}
  \cup {<< Selector, m, MultiOption >> : m \in TwoOperators}
  \cup {<< Selector, m, UpsertOption >> : m \in UpsertModifiers}
  \cup {<< Selector, m, SkipOption >> : m \in SkippedModifiers}

\* the arguments of the insertAsync calls
InsertArgs ==
  {<< d >> : d \in InsertDocs}
  \cup {<< d, SkipOption >> : d \in BaseDocs}
  \cup {<< d, Obj(<< >>) >> : d \in BaseDocs}

\* the arguments of the upsertAsync calls
UpsertArgs == {<< Selector, m >> : m \in UpsertModifiers}

(***************************************************************************)
(* The state: the bindings of the collections, the call in progress and     *)
(* what came of it.                                                         *)
(***************************************************************************)
VARIABLES coll, call, res

vars == << coll, call, res >>

NoCall == [method |-> "", coll |-> "", args |-> << >>, userId |-> Undefined]

Idle == [status |-> "idle", calls |-> << >>, caller |-> << >>, error |-> NoError]

Done(o) ==
  [status |-> IF o.error = NoError THEN "ok" ELSE "error",
   calls |-> o.calls, caller |-> o.caller, error |-> o.error]

Init ==
  /\ coll = [name \in CollectionNames |-> Unbound]
  /\ call = NoCall
  /\ res = Idle

\* the declarations the application makes at startup, in order; the last
\* chain declares the schema a second time
DeclarationChains ==
  {<< >>, << "withSchema" >>, << "withSchema", "withUser" >>,
   << "withSchema", "withDates" >>, << "withSchema", "withSoftDelete" >>,
   << "withSchema", "withSoftDelete", "withDates", "withUser" >>,
   << "withSchema", "withSoftDelete", "withDates", "withUser", "withSchema" >>}

RECURSIVE Declared(_, _)
Declared(c, chain) ==
  IF chain = << >> THEN c
  ELSE Declared(
         CASE Head(chain) = "withSchema" -> withSchema(c, PersonSchema).binding
           [] Head(chain) = "withUser" -> withUser(c).binding
           [] Head(chain) = "withDates" -> withDates(c).binding
           [] Head(chain) = "withSoftDelete" -> withSoftDelete(c).binding,
         Tail(chain))

\* the collections of the application: test with each chain, users with a
\* schema, alone or with dates
Startups ==
  ({"test"} \X DeclarationChains)
  \cup ({"users"} \X {<< "withSchema" >>, << "withSchema", "withDates" >>})

InitDeclared ==
  /\ \E s \in Startups : coll = [c \in {s[1]} |-> Declared(Unbound, s[2])]
  /\ call = NoCall
  /\ res = Idle

\* Meteor.userId() is read by the user hook alone
Ambient(c) == IF c._withUser THEN Users ELSE {Undefined}

Declare(method, name, r) ==
  /\ res.status = "idle"
  /\ coll' = [coll EXCEPT ![name] = r.binding]
  /\ call' = [method |-> method, coll |-> name, args |-> << >>, userId |-> Undefined]
  /\ res' = Done(Outcome(<< >>, << >>, r.error))

WithSchema ==
  \E name \in DOMAIN coll, schema \in Schemas :
    Declare("withSchema", name, withSchema(coll[name], schema))

WithUser == \E name \in DOMAIN coll : Declare("withUser", name, withUser(coll[name]))

WithDates == \E name \in DOMAIN coll : Declare("withDates", name, withDates(coll[name]))

WithSoftDelete ==
  \E name \in DOMAIN coll : Declare("withSoftDelete", name, withSoftDelete(coll[name]))

Write(method, name, args, userId, now) ==
  /\ res.status = "idle"
  /\ call' = [method |-> method, coll |-> name, args |-> args, userId |-> userId]
  /\ res' = Done(write(method, name, coll[name], args, userId, now))
  /\ UNCHANGED coll

InsertAsync(argsSet) ==
  \E name \in DOMAIN coll, args \in argsSet, now \in Times :
    \E userId \in Ambient(coll[name]) : Write("insertAsync", name, args, userId, now)

UpdateAsync(argsSet) ==
  \E name \in DOMAIN coll, args \in argsSet, now \in Times :
    \E userId \in Ambient(coll[name]) : Write("updateAsync", name, args, userId, now)

UpsertAsync(argsSet) ==
  \E name \in DOMAIN coll, args \in argsSet, now \in Times :
    \E userId \in Ambient(coll[name]) : Write("upsertAsync", name, args, userId, now)

RemoveAsync ==
  \E name \in DOMAIN coll, now \in Times :
    \E userId \in Ambient(coll[name]) :
      /\ res.status = "idle"
      /\ call' = [method |-> "removeAsync", coll |-> name, args |-> << Selector >>,
                  userId |-> userId]
      /\ res' = Done(removeAsync(name, coll[name], Selector, userId, now))
      /\ UNCHANGED coll

RecoverAsync ==
  \E name \in DOMAIN coll, now \in Times :
    \E userId \in Ambient(coll[name]) :
      /\ res.status = "idle"
      /\ call' = [method |-> "recoverAsync", coll |-> name, args |-> << Selector >>,
                  userId |-> userId]
      /\ res' = Done(recoverAsync(name, coll[name], Selector, userId, now))
      /\ UNCHANGED coll

\* the caller takes the result or the error; the next call can start
Return ==
  /\ res.status # "idle"
  /\ call' = NoCall
  /\ res' = Idle
  /\ UNCHANGED coll

\* the writes of a running application: the declarations were made at startup
NextWrites ==
  \/ InsertAsync(InsertArgs)
  \/ UpdateAsync(UpdateArgs)
  \/ UpsertAsync(UpsertArgs)
  \/ RemoveAsync
  \/ RecoverAsync
  \/ Return

SpecWrites == InitDeclared /\ [][NextWrites]_vars

\* the writes made while the declarations are still being made
EarlyInsertArgs == {<< d >> : d \in BaseDocs}

EarlyUpdateArgs ==
  {<< Selector, Obj(<< KV("$set", Obj(<< KV("age", Num(31)) >>)) >>) >>,
   << Selector, Obj(<< KV("$set", Obj(<< KV("age", Str("x")) >>)) >>) >>,
   << Selector, Obj(<< KV("$push", Obj(<< KV("scores", Num(1)) >>)) >>) >>}

\* a collection from its construction on: declarations and writes in any order
Next ==
  \/ WithSchema
  \/ WithUser
  \/ WithDates
  \/ WithSoftDelete
  \/ InsertAsync(EarlyInsertArgs)
  \/ UpdateAsync(EarlyUpdateArgs)
  \/ RemoveAsync
  \/ RecoverAsync
  \/ Return

Spec == Init /\ [][Next]_vars


(***************************************************************************)
(* The call in progress, as the properties below speak of it.               *)
(***************************************************************************)
Returned == res.status # "idle"

Binding == coll[call.coll]

\* the options argument as the caller means it: the one after the document
\* of an insert, after the modifier of an update
Options ==
  IF call.method = "insertAsync"
  THEN (IF Len(call.args) >= 2 THEN call.args[2] ELSE Undefined)
  ELSE (IF Len(call.args) >= 3 THEN call.args[3] ELSE Undefined)

\* an update of users whose modifier targets the services subtree
ServicesExempt ==
  /\ call.method = "updateAsync"
  /\ call.coll = "users"
  /\ ~servicesKey(call.args[2]).threw
  /\ servicesKey(call.args[2]).value

\* a call of the wrapped method that reaches the hooks and the checks
Checked(method) ==
  /\ Returned
  /\ call.method = method
  /\ Binding._schema.t # "undefined"
  /\ ~skipSchema(call.args)
  /\ ~ServicesExempt
  /\ ~(call.method = "updateAsync" /\ call.coll = "users"
       /\ servicesKey(call.args[2]).threw)

\* an update that goes through the per-operator loop
PlainUpdate == Checked("updateAsync") /\ ~IsUpsert(TRUE, call.args)

\* the arguments of the one call made to the underlying method
Forwarded == res.calls[1].args

\* the arguments as the hooks of the binding leave them, for a given new Date()
Stamped(now) ==
  hooked(Binding, call.args, IsUpsert(call.method = "updateAsync", call.args),
         call.method = "updateAsync", call.userId, now)

\* x is a value the descriptor accepts
RECURSIVE Conforms(_, _)
Conforms(sch, x) ==
  CASE sch.t = "ZodString" ->
         x.k = "string" /\ (sch.chk = "length" => Len(x.s) = UserIdLength)
    [] sch.t = "ZodNumber" ->
         /\ x.k = "number"
         /\ sch.chk = "positive" => IsPositive(x)
         /\ sch.chk = "int" => x.s # "frac"
    [] sch.t = "ZodBoolean" -> x.k = "boolean"
    [] sch.t = "ZodDate" -> x.k = "date"
    [] sch.t \in {"ZodOptional", "ZodDefault"} ->
         x.k = "undefined" \/ Conforms(Inner(sch), x)
    [] sch.t = "ZodArray" ->
         x.k = "array" /\ \A i \in 1..Len(x.e) : Conforms(Inner(sch), x.e[i].val)
    [] sch.t = "ZodObject" ->
         /\ x.k = "object"
         /\ \A i \in 1..Len(sch.sub) :
              Conforms(sch.sub[i].val, Get(x, sch.sub[i].key))
    [] OTHER -> FALSE

\* x without the keys the descriptor does not declare, at every depth, the
\* declared keys in the order of the shape, an absent default filled in
RECURSIVE Strip(_, _)
Strip(sch, x) ==
  CASE sch.t = "ZodObject" ->
         LET kept == SelectSeq(sch.sub,
                       LAMBDA f : Has(x, f.key) \/ f.val.t = "ZodDefault")
         IN Obj([i \in 1..Len(kept) |->
                   KV(kept[i].key, Strip(kept[i].val, Get(x, kept[i].key)))])
    [] sch.t = "ZodArray" ->
         [x EXCEPT !.e = [i \in 1..Len(x.e) |->
            KV(x.e[i].key, Strip(Inner(sch), x.e[i].val))]]
    [] sch.t = "ZodOptional" ->
         IF x.k = "undefined" THEN x ELSE Strip(Inner(sch), x)
    [] sch.t = "ZodDefault" ->
         IF x.k = "undefined" THEN sch.d ELSE Strip(Inner(sch), x)
    [] OTHER -> x

\* x carries a key the descriptor does not declare, at some depth
RECURSIVE CarriesUndeclared(_, _)
CarriesUndeclared(sch, x) ==
  CASE sch.t = "ZodObject" /\ x.k = "object" ->
         \E i \in 1..Len(x.e) :
           \/ x.e[i].key \notin ShapeKeys(sch)
           \/ CarriesUndeclared(ShapeGet(sch, x.e[i].key), x.e[i].val)
    [] sch.t = "ZodArray" /\ x.k = "array" ->
         \E i \in 1..Len(x.e) : CarriesUndeclared(Inner(sch), x.e[i].val)
    [] sch.t = "ZodOptional" -> CarriesUndeclared(Inner(sch), x)
    [] OTHER -> FALSE

(***************************************************************************)
(* C1.  A checked insertAsync / updateAsync call invokes the underlying     *)
(* method exactly once, with the method it wraps, when no check fails, and  *)
(* never when a check fails: then it raises one error and forwards nothing. *)
(***************************************************************************)
C1_OnceOrNever ==
  \A method \in {"insertAsync", "updateAsync"} :
    Checked(method) =>
      /\ res.error = NoError =>
           Len(res.calls) = 1 /\ res.calls[1].method = method
      /\ res.error # NoError => res.calls = << >>
      /\ res.status = "error" <=> res.error # NoError

\* an update whose first operator was rewritten and whose second operator
\* failed its check: nothing is forwarded
C1_Witness ==
  /\ PlainUpdate
  /\ Len(call.args[2].e) = 2
  /\ call.args[2].e[1].key = "$set"
  /\ res.caller[2].e[1].val # call.args[2].e[1].val
  /\ res.status = "error"
  /\ res.calls = << >>

(***************************************************************************)
(* C2.  An insert, not sent with the skipSchema option, of a document that  *)
(* satisfies the schema and carries undeclared fields raises no error and   *)
(* forwards exactly the declared fields with their original values.         *)
(***************************************************************************)
C2_InsertStripsUndeclared ==
  (/\ Returned
   /\ call.method = "insertAsync"
   /\ Binding._schema.t # "undefined"
   /\ ~Truthy(Get(Options, "skipSchema"))
   /\ Conforms(Binding._schema, call.args[1])
   /\ CarriesUndeclared(Binding._schema, call.args[1]))
  => /\ res.status = "ok"
     /\ Forwarded[1] = Strip(Binding._schema, call.args[1])
\* a document that satisfies the schema and carries the undeclared key
\* skipSchema reaches the underlying insert with that key
C2_Reached ==
  /\ Returned
  /\ call.method = "insertAsync"
  /\ Len(call.args) = 1
  /\ Binding._schema.t # "undefined"
  /\ Conforms(Binding._schema, call.args[1])
  /\ res.status = "ok"
  /\ Has(Forwarded[1], "skipSchema")

(***************************************************************************)
(* C3.  When the schema engine rejects the document of an insert or the     *)
(* operand of a leading $set, the call raises a ValidationError with the    *)
(* summary "Collection schema validation error" whose details are the       *)
(* engine's issues in the engine's order, each named by its path joined     *)
(* with "." and typed by its code; an error that is not an engine issue     *)
(* list (a field check's ValidationError, a TypeError) is raised as thrown. *)
(***************************************************************************)
RaisedAs(issues) ==
  /\ res.status = "error"
  /\ res.calls = << >>
  /\ res.error.type = "ValidationError"
  /\ res.error.summary = "Collection schema validation error"
  /\ Len(res.error.details) = Len(issues)
  /\ \A i \in 1..Len(issues) :
       /\ res.error.details[i].name = Join(issues[i].path)
       /\ res.error.details[i].type = issues[i].code

LeadingSet ==
  /\ PlainUpdate
  /\ Len(call.args[2].e) >= 1
  /\ call.args[2].e[1].key = "$set"

FieldCheckTypes ==
  {"invalid_field", "invalid_array_field", "invalid_array_pop_operation"}

C3_EngineIssuesRaised ==
  /\ Checked("insertAsync") =>
       \A now \in Times :
         LET p == Parse(Binding._schema, Stamped(now)[1], << >>)
         IN ~Success(p) => RaisedAs(p.issues)
  /\ LeadingSet =>
       \A now \in Times :
         LET p == Parse(deepPartial(Binding._schema),
                        Get(Stamped(now)[2], "$set"), << >>)
         IN ~Success(p) => RaisedAs(p.issues)
  /\ (Returned /\ res.status = "error") =>
       /\ res.error.type \in {"ValidationError", "TypeError", "Meteor.Error"}
       /\ res.error.summary = "Collection schema validation error" =>
            \A i \in 1..Len(res.error.details) :
              res.error.details[i].type \notin FieldCheckTypes
       /\ res.error.type = "TypeError" => res.error = TypeError

\* two issues below an optional object, in the order of the shape
C3_Witness ==
  /\ Checked("insertAsync")
  /\ res.status = "error"
  /\ res.error.summary = "Collection schema validation error"
  /\ res.error.details = << Detail("profile.age", "too_small"),
                            Detail("profile.address.city", "invalid_type") >>

(***************************************************************************)
(* C4.  A plain update whose only operator is $set, holding top-level       *)
(* fields of the schema.  As stated: when every value is valid for its      *)
(* field the update succeeds, whatever required fields are absent, and the  *)
(* forwarded $set holds exactly the fields sent; with a wrong value it is   *)
(* rejected.                                                                *)
(***************************************************************************)
SoleSet == PlainUpdate /\ Keys(call.args[2]) = << "$set" >>

\* every key of the operand is a top-level field of the schema
TopLevel(operand) ==
  \A i \in 1..Len(operand.e) : operand.e[i].key \in ShapeKeys(Binding._schema)

\* every value of the operand is valid for its field at every depth it gives
FieldsValid(operand) ==
  \A i \in 1..Len(operand.e) :
    Conforms(deepPartialify(ShapeGet(Binding._schema, operand.e[i].key)),
             operand.e[i].val)

C4_SetHoldsFieldsSent ==
  (SoleSet /\ TopLevel(Get(call.args[2], "$set"))) =>
    IF FieldsValid(Get(call.args[2], "$set"))
    THEN /\ res.status = "ok"
         /\ KeySet(Get(Forwarded[2], "$set")) = KeySet(Get(call.args[2], "$set"))
    ELSE res.status = "error"

(***************************************************************************)
(* C4, amended.  The same update is judged on the $set the lifecycle hooks  *)
(* leave (withDates adds updatedAt and removes createdAt, withUser removes  *)
(* userId when a user is in context): when every value is valid for its     *)
(* field the update succeeds, whatever required fields are absent, and the  *)
(* forwarded $set holds exactly those fields, each without its undeclared   *)
(* keys; with a wrong value nothing is forwarded.                           *)
(***************************************************************************)
C4_SetHoldsFieldsHooked ==
  SoleSet =>
    \E now \in Times :
      LET sent == Get(Stamped(now)[2], "$set")
      IN TopLevel(sent) =>
           IF FieldsValid(sent)
           THEN /\ res.status = "ok"
                /\ KeySet(Get(Forwarded[2], "$set")) = KeySet(sent)
                /\ \A i \in 1..Len(sent.e) :
                     Get(Get(Forwarded[2], "$set"), sent.e[i].key)
                       = Strip(deepPartialify(ShapeGet(Binding._schema,
                                                       sent.e[i].key)),
                               sent.e[i].val)
           ELSE res.status = "error" /\ res.calls = << >>

\* $set of age alone on a schema that requires name and scores
C4_Witness ==
  /\ SoleSet
  /\ Get(call.args[2], "$set") = Obj(<< KV("age", Num(31)) >>)
  /\ Binding._withDates
  /\ res.status = "ok"
  /\ Keys(Get(Forwarded[2], "$set")) = << "age", "updatedAt" >>

(***************************************************************************)
(* C5.  A write whose options carry a truthy skipSchema, and every write    *)
(* on a collection with no schema, reaches the underlying method with the   *)
(* arguments as given: no hook has run, nothing is stripped or checked.     *)
(***************************************************************************)
C5_PassThroughUnchanged ==
  (/\ Returned
   /\ call.method \in {"insertAsync", "updateAsync", "upsertAsync"}
   /\ Truthy(Get(Options, "skipSchema")) \/ Binding._schema.t = "undefined")
  => /\ res.status = "ok"
     /\ res.calls = << [method |-> call.method, args |-> call.args] >>
     /\ res.caller = call.args

\* a $set the schema rejects and the hooks would stamp, stored as given
C5_Witness ==
  /\ Returned
  /\ call.method = "updateAsync"
  /\ Binding._schema.t # "undefined"
  /\ Binding._withDates
  /\ Options = SkipOption
  /\ Get(Get(call.args[2], "$set"), "age") = Str("31")
  /\ res.calls = << [method |-> "updateAsync", args |-> call.args] >>

(***************************************************************************)
(* C6.  The field an array operator names first.  For $push / $addToSet: a  *)
(* path that does not resolve in the schema fails with invalid_field named  *)
(* after the field, a path that resolves to something other than an array   *)
(* (a trailing optional unwrapped) fails with invalid_array_field, and an   *)
(* optional array is taken as an array.                                     *)
(***************************************************************************)
LeadingOperator(ops) ==
  /\ PlainUpdate
  /\ Len(call.args[2].e) >= 1
  /\ call.args[2].e[1].key \in ops
  /\ Len(call.args[2].e[1].val.e) >= 1

\* the first field of the first operator, and its operand
Field == call.args[2].e[1].val.e[1].key

Operand == call.args[2].e[1].val.e[1].val

Unresolved(r) == r.threw \/ r.schema.t = "undefined"

RaisedOn(field, type) ==
  /\ res.status = "error"
  /\ res.error.type = "ValidationError"
  /\ res.error.details = << Detail(field, type) >>

C6_PushFieldChecks ==
  LeadingOperator({"$push", "$addToSet"}) =>
    LET r == schemaFromPath(Binding._schema, Field)
    IN /\ Unresolved(r) => RaisedOn(Field, "invalid_field")
       /\ (~Unresolved(r) /\ r.schema.t # "ZodArray") =>
            RaisedOn(Field, "invalid_array_field")
       /\ (~Unresolved(r) /\ r.schema.t = "ZodArray" /\ res.status = "error") =>
            \A i \in 1..Len(res.error.details) :
              res.error.details[i].name = Field =>
                res.error.details[i].type \notin FieldCheckTypes

\* $push on a path that runs through an optional array ends in a TypeError
C6_Reached ==
  /\ LeadingOperator({"$push", "$addToSet"})
  /\ Field = "meta.views.0"
  /\ res.error = TypeError

(***************************************************************************)
(* C7.  $push of a value that is not of the element type of the array field *)
(* F raises a ValidationError with an issue of type invalid_type whose name *)
(* is F.                                                                    *)
(***************************************************************************)
C7_PushIssueNamesField ==
  (/\ LeadingOperator({"$push"})
   /\ ~Unresolved(schemaFromPath(Binding._schema, Field))
   /\ schemaFromPath(Binding._schema, Field).schema.t = "ZodArray"
   /\ ~Has(Operand, "$each")
   /\ ~Conforms(Inner(schemaFromPath(Binding._schema, Field).schema), Operand))
  => /\ res.status = "error"
     /\ res.error.type = "ValidationError"
     /\ \E i \in 1..Len(res.error.details) :
          /\ res.error.details[i].type = "invalid_type"
          /\ res.error.details[i].name = Field

\* the issue of a wrong element carries the path inside the element, which
\* is empty for a scalar
C7_Reached ==
  /\ LeadingOperator({"$push"})
  /\ Field = "scores"
  /\ Operand = Str("x")
  /\ res.error.details = << Detail("", "invalid_type") >>

(***************************************************************************)
(* C8.  $push / $addToSet on array fields.  An operand that carries $each   *)
(* is checked as {$each: array of elements, $position?: integer, $slice?:   *)
(* integer, $sort?: 1, -1 or a map of fields to 1 / -1}, any other operand  *)
(* as one element.  When every operand passes, each is forwarded as         *)
(* checked: the elements without their undeclared keys, $each, $position,   *)
(* $slice and $sort with their values; a non-integer $position or $slice,   *)
(* a $sort of another shape or a wrong element rejects the write.           *)
(***************************************************************************)
IsInteger(x) == x.k = "number" /\ x.s # "frac"

IsSort(x) ==
  \/ x \in {Num(1), Num(-1)}
  \/ x.k = "object" /\ \A i \in 1..Len(x.e) : x.e[i].val \in {Num(1), Num(-1)}

EachConforms(element, v) ==
  /\ Conforms(ZArray(element), Get(v, "$each"))
  /\ Has(v, "$position") => IsInteger(Get(v, "$position"))
  /\ Has(v, "$slice") => IsInteger(Get(v, "$slice"))
  /\ Has(v, "$sort") => IsSort(Get(v, "$sort"))

EachChecked(element, v) ==
  Obj(SelectSeq(<< KV("$each", Strip(ZArray(element), Get(v, "$each"))),
                   KV("$position", Get(v, "$position")),
                   KV("$slice", Get(v, "$slice")),
                   KV("$sort", Get(v, "$sort")) >>,
                LAMBDA f : Has(v, f.key)))

\* the one operator of the modifier is op and each of its fields is an array
ArrayFieldsOf(op) ==
  /\ PlainUpdate
  /\ Keys(call.args[2]) = << op >>
  /\ \A i \in 1..Len(Get(call.args[2], op).e) :
       LET r == schemaFromPath(Binding._schema, Get(call.args[2], op).e[i].key)
       IN ~Unresolved(r) /\ r.schema.t = "ZodArray"

ElementOf(field) == Inner(schemaFromPath(Binding._schema, field).schema)

C8_EachComposite ==
  \A op \in {"$push", "$addToSet"} :
    ArrayFieldsOf(op) =>
      LET sent == Get(call.args[2], op)
          Passes(f) == IF Has(f.val, "$each")
                       THEN EachConforms(ElementOf(f.key), f.val)
                       ELSE Conforms(ElementOf(f.key), f.val)
          Checks(f) == IF Has(f.val, "$each")
                       THEN EachChecked(ElementOf(f.key), f.val)
                       ELSE Strip(ElementOf(f.key), f.val)
      IN IF \A i \in 1..Len(sent.e) : Passes(sent.e[i])
         THEN /\ res.status = "ok"
              /\ Keys(Get(Forwarded[2], op)) = Keys(sent)
              /\ \A i \in 1..Len(sent.e) :
                   Get(Forwarded[2], op).e[i].val = Checks(sent.e[i])
         ELSE res.status = "error" /\ res.calls = << >>

\* $each of two elements with an undeclared key each, $sort and $slice kept
C8_Witness ==
  /\ ArrayFieldsOf("$push")
  /\ res.status = "ok"
  /\ Get(Get(Forwarded[2], "$push"), "tags")
       = Obj(<< KV("$each", Arr(<< Obj(<< KV("name", Str("tag2")) >>),
                                   Obj(<< KV("name", Str("tag3")) >>) >>)),
                KV("$slice", Num(3)), KV("$sort", Num(-1)) >>)

(***************************************************************************)
(* C9.  The field $pop names first: an unresolved path fails with           *)
(* invalid_field, a resolved field that is not an array with                *)
(* invalid_array_field, an operand other than 1 or -1 with                  *)
(* invalid_array_pop_operation, in this order; when every field passes the  *)
(* operand map of $pop is forwarded as sent.                                *)
(***************************************************************************)
C9_PopFieldChecks ==
  LeadingOperator({"$pop"}) =>
    LET r == schemaFromPath(Binding._schema, Field)
    IN /\ Unresolved(r) => RaisedOn(Field, "invalid_field")
       /\ (~Unresolved(r) /\ r.schema.t # "ZodArray") =>
            RaisedOn(Field, "invalid_array_field")
       /\ (~Unresolved(r) /\ r.schema.t = "ZodArray"
           /\ Operand \notin {Num(1), Num(-1)}) =>
            /\ res.status = "error"
            /\ res.error.type = "ValidationError"
            /\ Len(res.error.details) = 1
            /\ res.error.details[1].type = "invalid_array_pop_operation"
       /\ res.status = "ok" =>
            Get(Forwarded[2], "$pop") = Get(call.args[2], "$pop")

\* $pop on a path that runs through an optional array ends in a TypeError
C9_Reached ==
  /\ LeadingOperator({"$pop"})
  /\ Field = "meta.views.0"
  /\ res.error = TypeError

(***************************************************************************)
(* C10.  In a plain update the operand of $unset, $inc, $mul, $rename,      *)
(* $min, $max, $currentDate, $, $[], $pull, $pullAll and $bit is forwarded  *)
(* as sent, whatever it names, and raises nothing: an update made of these  *)
(* operators alone always succeeds.                                         *)
(***************************************************************************)
Unvalidated ==
  {"$unset", "$inc", "$mul", "$rename", "$min", "$max", "$currentDate",
   "$", "$[]", "$pull", "$pullAll", "$bit"}

C10_UnsupportedForwarded ==
  PlainUpdate =>
    /\ res.status = "ok" =>
         \A k \in KeySet(call.args[2]) \cap Unvalidated :
           Get(Forwarded[2], k) = Get(call.args[2], k)
    /\ KeySet(call.args[2]) \subseteq Unvalidated => res.status = "ok"

\* $inc of a string on an array-index path below an optional array
C10_Witness ==
  /\ PlainUpdate
  /\ Keys(call.args[2]) = << "$inc" >>
  /\ Keys(Get(call.args[2], "$inc")) = << "age", "meta.views.0" >>
  /\ Get(Get(call.args[2], "$inc"), "age") = Str("x")
  /\ res.status = "ok"
  /\ Get(Forwarded[2], "$inc") = Get(call.args[2], "$inc")

(***************************************************************************)
(* C11.  The dotted keys of the $set a plain update leads with.  A dotted   *)
(* key whose path resolves in the schema is checked against the descriptor  *)
(* the path leads to and forwarded under the same key with the checked      *)
(* value; a dotted key whose path does not resolve is left out of the       *)
(* forwarded $set and raises no error; the other keys of the $set are       *)
(* forwarded as the partial schema leaves them.                             *)
(***************************************************************************)
\* the dotted entries of an operand, in key order, and the operand without
\* them
Dotted(operand) == SelectSeq(operand.e, LAMBDA f : HasDot(f.key))

Undotted(operand) == Obj(SelectSeq(operand.e, LAMBDA f : ~HasDot(f.key)))

\* every dotted entry whose path resolves holds a value its leaf accepts
LeavesValid(schema, entries) ==
  \A i \in 1..Len(entries) :
    LET r == schemaFromPath(schema, entries[i].key)
    IN ~Unresolved(r) => Success(Parse(r.schema, entries[i].val, << >>))

\* the forwarded operand holds each resolved dotted entry as checked and no
\* unresolved one
LeavesForwarded(schema, entries, forwarded) ==
  \A i \in 1..Len(entries) :
    LET r == schemaFromPath(schema, entries[i].key)
    IN IF Unresolved(r) THEN ~Has(forwarded, entries[i].key)
       ELSE Get(forwarded, entries[i].key)
              = Parse(r.schema, entries[i].val, << >>).data

\* the forwarded operand holds the undotted entries as parsed
UndottedForwarded(p, forwarded) ==
  \A i \in 1..Len(p.data.e) :
    Get(forwarded, p.data.e[i].key) = p.data.e[i].val

C11_DottedKeys ==
  SoleSet =>
    \E now \in Times :
      LET sent == Get(Stamped(now)[2], "$set")
          p == Parse(deepPartial(Binding._schema), Undotted(sent), << >>)
      IN IF Success(p) /\ LeavesValid(Binding._schema, Dotted(sent))
         THEN /\ res.status = "ok"
              /\ LeavesForwarded(Binding._schema, Dotted(sent),
                                 Get(Forwarded[2], "$set"))
              /\ UndottedForwarded(p, Get(Forwarded[2], "$set"))
         ELSE res.status = "error" /\ res.calls = << >>

\* a dotted key that runs through an optional array ends the update in a
\* TypeError
C11_Reached ==
  /\ SoleSet
  /\ Keys(Get(call.args[2], "$set")) = << "tags.0.name" >>
  /\ res.status = "error"
  /\ res.error = TypeError

(***************************************************************************)
(* C12.  A plain update in which several checks fail, under more than one   *)
(* operator or under an undotted and a dotted key of the leading $set,      *)
(* raises one error that holds the issues of all of them.                   *)
(***************************************************************************)
\* every detail of the error is among the details raised
Raises(error) ==
  (error # NoError /\ error.type = "ValidationError") =>
    /\ res.status = "error"
    /\ res.error.type = "ValidationError"
    /\ \A j \in 1..Len(error.details) :
         \E k \in 1..Len(res.error.details) :
           res.error.details[k] = error.details[j]

\* the issues of the dotted keys of an operand, as one error
NestedIssues(nested) ==
  IF nested.threw \/ nested.errors = << >> THEN NoError
  ELSE ValidationError(nested.errors, "Nested fields validation error")

C12_IssuesOfAllChecks ==
  PlainUpdate =>
    \E now \in Times :
      LET modifier == Stamped(now)[2]
      IN /\ \A i \in 1..Len(modifier.e) :
              Raises(checkOperator(Binding._schema, deepPartial(Binding._schema),
                                   modifier, modifier.e[i].key).error)
         /\ LeadingSet =>
              Raises(NestedIssues(validateNestedFields(Get(modifier, "$set"),
                                                       Binding._schema, 1)))

\* of a wrong $set value and a $push on a field that is no array, the error
\* holds the first alone
C12_Reached ==
  /\ PlainUpdate
  /\ Keys(call.args[2]) = << "$set", "$push" >>
  /\ Get(call.args[2], "$set") = Obj(<< KV("age", Str("x")) >>)
  /\ Get(call.args[2], "$push") = Obj(<< KV("name", Str("invalid")) >>)
  /\ res.status = "error"
  /\ res.error.details = << Detail("age", "invalid_type") >>

\* of a wrong undotted value and a wrong dotted value of one $set, the error
\* holds the first alone
C12_ReachedInOneOperator ==
  /\ SoleSet
  /\ Get(call.args[2], "$set")
       = Obj(<< KV("age", Str("x")), KV("profile.age", Num(-21)) >>)
  /\ res.status = "error"
  /\ res.error.details = << Detail("age", "invalid_type") >>

(***************************************************************************)
(* C13.  A checked update whose options carry a truthy upsert.  The $set    *)
(* the hooks leave is replaced by its parse against the deep-partial        *)
(* schema and the $setOnInsert by its parse against the partial schema,     *)
(* whose nested objects stay strict; no other operator is checked, and      *)
(* each is forwarded as given.                                              *)
(***************************************************************************)
UpsertUpdate == Checked("updateAsync") /\ IsUpsert(TRUE, call.args)

\* the operand of op is absent or the variant accepts it
Accepts(variant, modifier, op) ==
  Truthy(Get(modifier, op)) => Success(Parse(variant, Get(modifier, op), << >>))

\* the forwarded operand of op is the parse of the operand, when there is one
ForwardedParsed(variant, modifier, op) ==
  IF Truthy(Get(modifier, op))
  THEN Get(Forwarded[2], op) = Parse(variant, Get(modifier, op), << >>).data
  ELSE Get(Forwarded[2], op) = Get(modifier, op)

C13_UpsertPolicy ==
  UpsertUpdate =>
    \E now \in Times :
      LET modifier == Stamped(now)[2]
      IN IF /\ Accepts(deepPartial(Binding._schema), modifier, "$set")
            /\ Accepts(partial(Binding._schema), modifier, "$setOnInsert")
         THEN /\ res.status = "ok"
              /\ Len(res.calls) = 1
              /\ Forwarded[1] = call.args[1]
              /\ Forwarded[3] = call.args[3]
              /\ KeySet(Forwarded[2]) = KeySet(modifier)
              /\ ForwardedParsed(deepPartial(Binding._schema), modifier, "$set")
              /\ ForwardedParsed(partial(Binding._schema), modifier, "$setOnInsert")
              /\ \A i \in 1..Len(modifier.e) :
                   modifier.e[i].key \notin {"$set", "$setOnInsert"} =>
                     Get(Forwarded[2], modifier.e[i].key) = modifier.e[i].val
         ELSE /\ res.status = "error"
              /\ res.calls = << >>
              /\ res.error.summary = "Collection schema validation error"

\* an upsert whose $push names a field that is no array is forwarded, its
\* $set parsed
C13_Witness ==
  /\ UpsertUpdate
  /\ Keys(call.args[2]) = << "$set", "$push" >>
  /\ Get(call.args[2], "$push") = Obj(<< KV("name", Str("invalid")) >>)
  /\ res.status = "ok"
  /\ Get(Forwarded[2], "$push") = Obj(<< KV("name", Str("invalid")) >>)

\* a nested object that lacks a required key passes in $set and fails in
\* $setOnInsert
C13_NestedStrict ==
  /\ UpsertUpdate
  /\ Keys(call.args[2]) = << "$set", "$setOnInsert" >>
  /\ Get(call.args[2], "$set") = Obj(<< KV("profile", Obj(<< KV("age", Num(21)) >>)) >>)
  /\ Get(call.args[2], "$setOnInsert")
       = Obj(<< KV("profile", Obj(<< KV("age", Num(21)) >>)) >>)
  /\ ~Binding._withDates
  /\ res.status = "error"
  /\ res.error.details = << Detail("profile.address", "invalid_type") >>

(***************************************************************************)
(* C14.  A checked update whose options carry a truthy upsert.  As stated:  *)
(* when $set and $setOnInsert together omit a field the schema requires,    *)
(* validation fails; when they omit optional fields only and what they      *)
(* hold is valid, it succeeds.                                              *)
(***************************************************************************)
\* a top-level field of the schema that is neither optional nor defaulted
Required(f) == f.val.t \notin {"ZodOptional", "ZodDefault"}

\* the top-level field is in neither operand
Omitted(modifier, key) ==
  /\ ~Has(OrEmpty(Get(modifier, "$set")), key)
  /\ ~Has(OrEmpty(Get(modifier, "$setOnInsert")), key)

\* the declared top-level fields of $set hold values valid at every depth
\* they give, those of $setOnInsert values valid as a whole
HeldValid(schema, modifier) ==
  /\ \A i \in 1..Len(OrEmpty(Get(modifier, "$set")).e) :
       LET f == OrEmpty(Get(modifier, "$set")).e[i]
       IN f.key \in ShapeKeys(schema) =>
            Conforms(deepPartialify(ShapeGet(schema, f.key)), f.val)
  /\ \A i \in 1..Len(OrEmpty(Get(modifier, "$setOnInsert")).e) :
       LET f == OrEmpty(Get(modifier, "$setOnInsert")).e[i]
       IN f.key \in ShapeKeys(schema) => Conforms(ShapeGet(schema, f.key), f.val)

C14_OmittedRequiredFails ==
  UpsertUpdate =>
    \E now \in Times :
      LET modifier == Stamped(now)[2]
      IN IF \E i \in 1..Len(Binding._schema.sub) :
              /\ Required(Binding._schema.sub[i])
              /\ Omitted(modifier, Binding._schema.sub[i].key)
         THEN res.status = "error"
         ELSE HeldValid(Binding._schema, modifier) => res.status = "ok"

(***************************************************************************)
(* C14, amended.  An upsert is never rejected for a top-level field that    *)
(* $set and $setOnInsert omit, required or not: it succeeds exactly when    *)
(* the declared fields $set holds are valid at every depth they give and    *)
(* those $setOnInsert holds are valid as a whole.                           *)
(***************************************************************************)
C14_OmissionNeverFails ==
  UpsertUpdate =>
    \E now \in Times :
      IF HeldValid(Binding._schema, Stamped(now)[2])
      THEN res.status = "ok" /\ Len(res.calls) = 1
      ELSE res.status = "error" /\ res.calls = << >>

\* an upsert that gives the name alone, on a schema that requires age and
\* scores too, is forwarded
C14_Witness ==
  /\ UpsertUpdate
  /\ call.args[2] = Obj(<< KV("$set", Obj(<< KV("name", Str("Johny")) >>)) >>)
  /\ ~Binding._withDates
  /\ ~Binding._withUser
  /\ res.status = "ok"
  /\ Forwarded[2] = call.args[2]

(***************************************************************************)
(* C15.  removeAsync(filter).  With soft delete enabled the underlying      *)
(* remove is never invoked: the call is one updateAsync of the filter       *)
(* through the wrapper, with $set {isDeleted: true, deletedAt: now}, and    *)
(* where the schema holds the soft-delete fields that $set reaches the      *)
(* underlying update.  Without soft delete the underlying remove is         *)
(* invoked with the filter and there is no update.                          *)
(***************************************************************************)
Removing == Returned /\ call.method = "removeAsync"

\* the call ended as the given update of the filter through the wrapper ends
EndsAsUpdate(modifier, now) ==
  res = Done(viaUpdate(write("updateAsync", call.coll, Binding,
                             << call.args[1], modifier >>, call.userId, now),
                       call.args[1]))

HoldsSoftDeleteFields(schema) ==
  schema.t = "ZodObject" /\ {"isDeleted", "deletedAt"} \subseteq ShapeKeys(schema)

C15_RemoveSoftOrHard ==
  Removing =>
    IF Binding._softDelete
    THEN /\ \A i \in 1..Len(res.calls) : res.calls[i].method = "updateAsync"
         /\ Len(res.calls) <= 1
         /\ \E now \in Times :
              /\ EndsAsUpdate(SoftDeleteModifier(now), now)
              /\ HoldsSoftDeleteFields(Binding._schema) =>
                   /\ res.status = "ok"
                   /\ Len(res.calls) = 1
                   /\ Forwarded[1] = call.args[1]
                   /\ Get(Get(Forwarded[2], "$set"), "isDeleted") = Bool(TRUE)
                   /\ Get(Get(Forwarded[2], "$set"), "deletedAt") = now
    ELSE /\ res.status = "ok"
         /\ res.calls = << Apply("removeAsync", << call.args[1] >>) >>

\* a soft delete reaches the underlying update with the two fields
C15_Witness ==
  /\ Removing
  /\ Binding._softDelete
  /\ ~Binding._withDates
  /\ HoldsSoftDeleteFields(Binding._schema)
  /\ res.status = "ok"
  /\ res.calls[1].method = "updateAsync"
  /\ Keys(Get(Forwarded[2], "$set")) = << "isDeleted", "deletedAt" >>

(***************************************************************************)
(* C16.  recoverAsync(filter).  Without soft delete it raises               *)
(* SOFT_DELETE_DISABLED and writes nothing.  With soft delete it is one     *)
(* update that passes validation and reaches the underlying update with     *)
(* deletedAt unset and isDeleted set to false, so that a document removed   *)
(* and then recovered holds isDeleted false and no deletedAt.               *)
(***************************************************************************)
Recovering == Returned /\ call.method = "recoverAsync"

\* the document without the keys given
RECURSIVE Unset(_, _)
Unset(doc, keys) ==
  IF keys = << >> THEN doc ELSE Unset(Delete(doc, Head(keys)), Tail(keys))

\* the stored document after an update of $set and $unset
Stored(doc, modifier) ==
  Unset(ObjectAssign(doc, OrEmpty(Get(modifier, "$set")).e),
        Keys(OrEmpty(Get(modifier, "$unset"))))

\* the document after removeAsync at the time given and then the update
\* forwarded by this recoverAsync
RemovedThenRecovered(doc, now) ==
  Stored(Stored(doc, removeAsync(call.coll, Binding, call.args[1], call.userId,
                                 now).calls[1].args[2]),
         Forwarded[2])

C16_RecoverRoundTrip ==
  Recovering =>
    IF ~Binding._softDelete
    THEN /\ res.status = "error"
         /\ res.error = MeteorError("SOFT_DELETE_DISABLED")
         /\ res.calls = << >>
    ELSE /\ res.status = "ok"
         /\ Len(res.calls) = 1
         /\ res.calls[1].method = "updateAsync"
         /\ Forwarded[1] = call.args[1]
         /\ Has(Get(Forwarded[2], "$unset"), "deletedAt")
         /\ Get(Get(Forwarded[2], "$set"), "isDeleted") = Bool(FALSE)
         /\ \A doc \in BaseDocs, now \in Times :
              /\ Get(RemovedThenRecovered(doc, now), "isDeleted") = Bool(FALSE)
              /\ ~Has(RemovedThenRecovered(doc, now), "deletedAt")

\* after withSchema is called again the schema lacks the soft-delete fields
\* and the $set of the recovery reaches the underlying update empty
C16_Reached ==
  /\ Recovering
  /\ Binding._softDelete
  /\ ~Binding._withDates
  /\ Binding._schema = PersonSchema
  /\ res.status = "ok"
  /\ Get(Forwarded[2], "$set") = Obj(<< >>)

(***************************************************************************)
(* C17.  withDates, withUser or withSoftDelete on a collection that has no  *)
(* schema fails with a configuration error, as recoverAsync does on a       *)
(* collection without soft delete; on a collection with a schema it         *)
(* returns.                                                                 *)
(***************************************************************************)
Extending ==
  Returned /\ call.method \in {"withDates", "withUser", "withSoftDelete"}

\* the declaration found no schema: none is bound after it either
FoundNoSchema == Binding._schema.t = "undefined"

C17_NoSchemaConfigurationError ==
  Extending =>
    IF FoundNoSchema
    THEN res.status = "error" /\ res.error.type = "Meteor.Error"
    ELSE res.status = "ok"

\* withDates before withSchema ends in the TypeError of null.extend
C17_Reached ==
  /\ Extending
  /\ call.method = "withDates"
  /\ FoundNoSchema
  /\ res.status = "error"
  /\ res.error = TypeError

(***************************************************************************)
(* C18.  Whatever declarations were made on a collection, each flag that    *)
(* is set has its fields in the bound schema: _withDates createdAt and      *)
(* updatedAt, _withUser userId, _softDelete isDeleted and deletedAt.        *)
(***************************************************************************)
\* the schema bound holds the fields given
HoldsFields(c, fields) ==
  /\ c._schema.t = "ZodObject"
  /\ \A i \in 1..Len(fields) : fields[i].key \in ShapeKeys(c._schema)

C18_FlagsImplyFields ==
  \A name \in DOMAIN coll :
    /\ coll[name]._withDates => HoldsFields(coll[name], DateFields)
    /\ coll[name]._withUser => HoldsFields(coll[name], UserFields)
    /\ coll[name]._softDelete => HoldsFields(coll[name], SoftDeleteFields)

\* withSchema called after withDates binds a schema without the date fields
\* and leaves the flag set
C18_Reached ==
  /\ Returned
  /\ call.method = "withSchema"
  /\ Binding._withDates
  /\ Binding._schema = PersonSchema

(***************************************************************************)
(* C19.  A declaration changes its own part of the binding alone.           *)
(* withSchema binds the schema given, as given, and sets no flag.           *)
(* withDates, withUser and withSoftDelete each set their own flag and add   *)
(* their own fields; the fields declared before and the other flags stay,   *)
(* and so do the bindings of the other collections.                         *)
(***************************************************************************)
\* the fields of a schema other than those given, in the order of the shape
OtherFields(schema, fields) ==
  SelectSeq(schema.sub,
            LAMBDA f : \A i \in 1..Len(fields) : f.key # fields[i].key)

\* d is c with the fields given added to the schema, when there is one
FieldsAdded(c, d, fields) ==
  IF c._schema.t = "undefined" THEN d._schema = c._schema
  ELSE /\ d._schema.t = "ZodObject"
       /\ OtherFields(d._schema, fields) = OtherFields(c._schema, fields)
       /\ \A i \in 1..Len(fields) :
            ShapeGet(d._schema, fields[i].key) = fields[i].val

\* d is c after the declaration method
DeclarationFrame(method, c, d) ==
  CASE method = "withSchema" ->
         /\ d._schema \in Schemas
         /\ d._withDates = c._withDates
         /\ d._withUser = c._withUser
         /\ d._softDelete = c._softDelete
    [] method = "withDates" ->
         /\ d._withDates
         /\ d._withUser = c._withUser
         /\ d._softDelete = c._softDelete
         /\ FieldsAdded(c, d, DateFields)
    [] method = "withUser" ->
         /\ d._withUser
         /\ d._withDates = c._withDates
         /\ d._softDelete = c._softDelete
         /\ FieldsAdded(c, d, UserFields)
    [] method = "withSoftDelete" ->
         /\ d._softDelete
         /\ d._withDates = c._withDates
         /\ d._withUser = c._withUser
         /\ FieldsAdded(c, d, SoftDeleteFields)

DeclarationMethods == {"withSchema", "withDates", "withUser", "withSoftDelete"}

C19_DeclarationFrame ==
  [][(res.status = "idle" /\ call'.method \in DeclarationMethods) =>
       \A name \in DOMAIN coll :
         IF name = call'.coll
         THEN DeclarationFrame(call'.method, coll[name], coll'[name])
         ELSE coll'[name] = coll[name]]_vars

\* withUser on a collection that has dates and soft delete, while the other
\* collection has its own schema and flags
C19_Witness ==
  /\ Returned
  /\ call.method = "withUser"
  /\ res.status = "ok"
  /\ Binding._withDates
  /\ Binding._softDelete
  /\ Binding._withUser
  /\ HoldsFields(Binding, DateFields \o SoftDeleteFields \o UserFields)
  /\ \E name \in DOMAIN coll :
       /\ name # call.coll
       /\ coll[name]._schema = PersonSchema
       /\ ~coll[name]._withUser

(***************************************************************************)
(* C20.  A checked insert on a collection with withUser.  With a user in    *)
(* context the document is forwarded with userId set to that user,          *)
(* whatever userId the client gave.  With no user in context the hook       *)
(* does nothing and raises nothing, and a document without userId is        *)
(* rejected by the schema with an invalid_type issue on userId.             *)
(***************************************************************************)
UserInsert == Checked("insertAsync") /\ Binding._withUser

\* every field of the schema but userId holds a valid value in the document
ValidBesidesUserId(schema, doc) ==
  \A i \in 1..Len(schema.sub) :
    schema.sub[i].key # "userId" =>
      Conforms(schema.sub[i].val, Get(doc, schema.sub[i].key))

C20_UserHookBeforeValidation ==
  UserInsert =>
    IF Truthy(call.userId)
    THEN /\ (\E now \in Times :
               ValidBesidesUserId(Binding._schema, Stamped(now)[1]))
              => res.status = "ok"
         /\ res.status = "ok" => Get(Forwarded[1], "userId") = call.userId
    ELSE /\ res.status = "error" =>
              /\ res.error.type = "ValidationError"
              /\ res.error.summary = "Collection schema validation error"
         /\ res.status = "ok" =>
              Get(Forwarded[1], "userId") = Get(call.args[1], "userId")
         /\ ~Has(call.args[1], "userId") =>
              /\ res.status = "error"
              /\ \E i \in 1..Len(res.error.details) :
                   res.error.details[i] = Detail("userId", "invalid_type")

\* on a collection whose schema was declared again after withUser, the
\* insert of a user in context is forwarded without userId
C20_Reached ==
  /\ UserInsert
  /\ Truthy(call.userId)
  /\ ~HoldsFields(Binding, UserFields)
  /\ res.status = "ok"
  /\ ~Has(Forwarded[1], "userId")

\* on a collection whose schema holds userId, the user in context replaces
\* the userId the client gave
C20_ReachedStamped ==
  /\ UserInsert
  /\ HoldsFields(Binding, UserFields)
  /\ Get(call.args[1], "userId") = ClientUser
  /\ res.status = "ok"
  /\ Get(Forwarded[1], "userId") = AmbientUser

(***************************************************************************)
(* C21.  A plain update on a collection with withUser reaches the           *)
(* underlying update with no userId in its $set, whatever the client sent   *)
(* and whether or not there is a user in context.                           *)
(***************************************************************************)
UserUpdate == PlainUpdate /\ Binding._withUser

C21_NoUserIdForwarded ==
  (UserUpdate /\ res.status = "ok") =>
    ~Has(Get(Forwarded[2], "$set"), "userId")

\* with no user in context the userId the client sent is forwarded
C21_Reached ==
  /\ UserUpdate
  /\ ~Truthy(call.userId)
  /\ res.status = "ok"
  /\ Get(Get(Forwarded[2], "$set"), "userId") = ClientUser

(***************************************************************************)
(* C22.  An update on the collection named users, with a schema and no      *)
(* skipSchema.  When the modifier targets the services subtree (the first   *)
(* field of its first operator lies under services) it is forwarded as      *)
(* given: no hook has run and nothing is checked.  Every other update ends  *)
(* as the same update ends on a collection of another name.                 *)
(***************************************************************************)
UsersUpdate ==
  /\ Returned
  /\ call.method = "updateAsync"
  /\ call.coll = "users"
  /\ Binding._schema.t # "undefined"
  /\ ~skipSchema(call.args)

TargetsServices(modifier) ==
  /\ Len(modifier.e) >= 1
  /\ modifier.e[1].val.k = "object"
  /\ Len(modifier.e[1].val.e) >= 1
  /\ Split(modifier.e[1].val.e[1].key)[1] = "services"

C22_ServicesForwardedOthersChecked ==
  UsersUpdate =>
    IF TargetsServices(call.args[2])
    THEN /\ res.status = "ok"
         /\ res.calls = << Apply("updateAsync", call.args) >>
    ELSE \E now \in Times :
           res = Done(write("updateAsync", "test", Binding, call.args,
                            call.userId, now))

\* an update of users with an empty modifier ends in a TypeError
C22_Reached ==
  /\ UsersUpdate
  /\ call.args[2] = Obj(<< >>)
  /\ res.status = "error"
  /\ res.error = TypeError

(***************************************************************************)
(* C23.  When two or more dotted keys of the $set of a plain update fail    *)
(* the check of the descriptor their path leads to (the checks are run      *)
(* once the undotted keys have passed theirs), the error raised holds the   *)
(* issues of all of them and no other, each named by its dotted key, in     *)
(* the key order of the $set.                                               *)
(***************************************************************************)
\* the dotted entries whose path resolves and whose value the leaf refuses
FailingLeaves(schema, entries) ==
  SelectSeq(entries,
            LAMBDA f : /\ ~Unresolved(schemaFromPath(schema, f.key))
                       /\ ~Success(Parse(schemaFromPath(schema, f.key).schema,
                                         f.val, << >>)))

\* the issues of the entries, each entry's under its key, in order
RECURSIVE LeafIssues(_, _)
LeafIssues(schema, entries) ==
  IF entries = << >> THEN << >>
  ELSE LET issues == Parse(schemaFromPath(schema, Head(entries).key).schema,
                           Head(entries).val, << >>).issues
       IN [j \in 1..Len(issues) |-> Detail(Head(entries).key, issues[j].code)]
          \o LeafIssues(schema, Tail(entries))

\* the checks of the dotted keys are reached and every one of them returns
LeafChecksRun(schema, operand) ==
  /\ Success(Parse(deepPartial(schema), Undotted(operand), << >>))
  /\ \A i \in 1..Len(Dotted(operand)) :
       ~schemaFromPath(schema, Dotted(operand)[i].key).threw

ArrayIndexPaths == {"scores.0", "tags.0.name"}

C24_IndexPathReachesElement ==
  (SoleSet /\ Keys(Get(call.args[2], "$set")) \in {<< p >> : p \in ArrayIndexPaths}) =>
    /\ ~Unresolved(schemaFromPath(Binding._schema, Field))
    /\ res.status = "ok"
    /\ Get(Get(Forwarded[2], "$set"), Field) = Operand

\* the resolver finds nothing at 'scores.0': the update goes through
\* without the key
C24_Reached ==
  /\ SoleSet
  /\ Keys(Get(call.args[2], "$set")) = << "scores.0" >>
  /\ schemaFromPath(Binding._schema, Field) = Resolved(NoSchema)
  /\ res.status = "ok"
  /\ ~Has(Get(Forwarded[2], "$set"), "scores.0")

(***************************************************************************)
(* C25.  The path resolver is total: for every dotted or undotted key an    *)
(* update names under an operator it returns a descriptor or the not-found  *)
(* signal and never raises, also when a segment that is not the last lands  *)
(* on an optional array or an optional primitive.                           *)
(***************************************************************************)
\* the keys of the operands of the modifier that are objects
OperandKeys(modifier) ==
  UNION {{modifier.e[i].val.e[j].key : j \in 1..Len(modifier.e[i].val.e)} :
           i \in {h \in 1..Len(modifier.e) : modifier.e[h].val.k = "object"}}

C25_ResolverNeverRaises ==
  PlainUpdate =>
    \A key \in OperandKeys(call.args[2]) :
      ~schemaFromPath(Binding._schema, key).threw

\* 'meta.views.0': the segment '0' is read of the shape of an optional array
C25_Reached ==
  /\ PlainUpdate
  /\ Keys(call.args[2]) = << "$push" >>
  /\ Keys(Get(call.args[2], "$push")) = << "meta.views.0" >>
  /\ schemaFromPath(Binding._schema, "meta.views.0") = ResolveThrew
  /\ res.status = "error"
  /\ res.error = TypeError
  /\ res.calls = << >>

(***************************************************************************)
(* C26.  A write never changes the document or the modifier the caller      *)
(* passed: after the call, failed or not, the caller's objects hold the     *)
(* keys and values they held before it.                                     *)
(***************************************************************************)
C26_CallerArgumentsKept ==
  (Returned /\ call.method \in {"insertAsync", "updateAsync", "upsertAsync"}) =>
    res.caller = call.args

\* a modifier of two operators: the first is rewritten in the caller's
\* object, then the second fails its check
C26_Reached ==
  /\ PlainUpdate
  /\ Len(Keys(call.args[2])) = 2
  /\ res.status = "error"
  /\ res.error.type = "ValidationError"
  /\ res.calls = << >>
  /\ res.caller[2].e[1].val # call.args[2].e[1].val
  /\ res.caller[2].e[2].val = call.args[2].e[2].val

\* an insert that fails its check after the hooks wrote into the document
C26_ReachedInsert ==
  /\ Checked("insertAsync")
  /\ res.status = "error"
  /\ res.caller[1] # call.args[1]

(***************************************************************************)
(* C27.  The skipSchema bypass is read of the options argument only: an     *)
(* insert of one argument whose document has a truthy skipSchema field, or  *)
(* an update of two arguments whose modifier has a truthy skipSchema key,   *)
(* is checked as any other, so it is never forwarded as it was given (the   *)
(* key is not of the schema: an insert strips it, an update refuses it).    *)
(***************************************************************************)
\* the last argument is the document or the modifier, and carries skipSchema
SkipInPayload ==
  /\ Returned
  /\ \/ call.method = "insertAsync" /\ Len(call.args) = 1
     \/ call.method = "updateAsync" /\ Len(call.args) = 2
  /\ Binding._schema.t # "undefined"
  /\ Truthy(Get(call.args[Len(call.args)], "skipSchema"))
  /\ ~ServicesExempt

C27_SkipOnlyFromOptions ==
  SkipInPayload => res.calls # << Apply(call.method, call.args) >>

\* an update whose modifier holds a $set the schema refuses next to a
\* skipSchema key: stored as given
C27_Reached ==
  /\ SkipInPayload
  /\ call.method = "updateAsync"
  /\ Get(call.args[2], "$set") = Obj(<< KV("age", Str("x")) >>)
  /\ res.status = "ok"
  /\ res.calls = << Apply("updateAsync", call.args) >>

(***************************************************************************)
(* C28.  On the collection named users the services exemption is granted    *)
(* only to a modifier all of whose field paths, under every operator, lie   *)
(* under services: any other update is checked as it is on a collection of  *)
(* another name, and an update whose modifier or first operand is empty     *)
(* raises nothing but a validation error.                                   *)
(***************************************************************************)
\* every path of every operator lies under services
AllUnderServices(modifier) ==
  /\ Len(modifier.e) >= 1
  /\ \A i \in 1..Len(modifier.e) :
       /\ modifier.e[i].val.k = "object"
       /\ Len(modifier.e[i].val.e) >= 1
  /\ \A key \in OperandKeys(modifier) : Split(key)[1] = "services"

\* the modifier, or the operand of its first operator, has no key
EmptyAtFirst(modifier) ==
  \/ Len(modifier.e) = 0
  \/ modifier.e[1].val.k = "object" /\ Len(modifier.e[1].val.e) = 0

C28_ExemptionOnlyUnderServices ==
  UsersUpdate =>
    /\ ~AllUnderServices(call.args[2]) =>
         \E now \in Times :
           res = Done(write("updateAsync", "test", Binding, call.args,
                            call.userId, now))
    /\ EmptyAtFirst(call.args[2]) => res.error.type # "TypeError"

\* a services path first, then a $push the schema refuses: stored as given
C28_Reached ==
  /\ UsersUpdate
  /\ call.args[2] = Obj(<< KV("$set", Obj(<< KV("services.token", Str("t")) >>)),
                           KV("$push", Obj(<< KV("name", Str("invalid")) >>)) >>)
  /\ res.status = "ok"
  /\ res.calls = << Apply("updateAsync", call.args) >>

\* an empty first operand: the read of its first key raises a TypeError
C28_ReachedEmptyOperand ==
  /\ UsersUpdate
  /\ Len(call.args[2].e) >= 1
  /\ EmptyAtFirst(call.args[2])
  /\ res.status = "error"
  /\ res.error = TypeError

(***************************************************************************)
(* C29.  A dotted key in the document of an insert, or in the $set or the   *)
(* $setOnInsert of an update sent with upsert, counts as an undeclared      *)
(* top-level key: the call ends as the same call without the dotted keys    *)
(* ends (nothing is checked of them and no error is raised for them, also   *)
(* when the path resolves in the schema), and what is forwarded holds none  *)
(* of them.                                                                 *)
(***************************************************************************)
\* the modifier without the dotted keys of its $set and its $setOnInsert
WithoutDotted(modifier) ==
  Obj([i \in 1..Len(modifier.e) |->
         IF modifier.e[i].key \in {"$set", "$setOnInsert"}
         THEN KV(modifier.e[i].key, Undotted(modifier.e[i].val))
         ELSE modifier.e[i]])

\* the document, or the $set / $setOnInsert of the upsert, holds a dotted key
DottedInsert == Checked("insertAsync") /\ Dotted(call.args[1]) # << >>

DottedUpsert == UpsertUpdate /\ WithoutDotted(call.args[2]) # call.args[2]

\* the call ends as the call with the arguments `plain` ends
EndsAs(plain) ==
  \E now \in Times :
    LET o == write(call.method, call.coll, Binding, plain, call.userId, now)
    IN /\ res.calls = o.calls
       /\ res.error = o.error

C29_DottedKeysDropped ==
  /\ DottedInsert =>
       /\ EndsAs([call.args EXCEPT ![1] = Undotted(call.args[1])])
       /\ res.status = "ok" => Dotted(Forwarded[1]) = << >>
  /\ DottedUpsert =>
       /\ EndsAs([call.args EXCEPT ![2] = WithoutDotted(call.args[2])])
       /\ res.status = "ok" => WithoutDotted(Forwarded[2]) = Forwarded[2]

\* 'profile.age': -21 resolves to a positive number, and the insert stores
\* the document without it
C29_Witness ==
  /\ DottedInsert
  /\ Get(call.args[1], "profile.age") = Num(-21)
  /\ ~Unresolved(schemaFromPath(Binding._schema, "profile.age"))
  /\ res.status = "ok"
  /\ ~Has(Forwarded[1], "profile.age")

\* the same in the $set and the $setOnInsert of an upsert
C29_WitnessUpsert ==
  /\ DottedUpsert
  /\ Get(Get(call.args[2], "$set"), "profile.age") = Num(-21)
  /\ Get(Get(call.args[2], "$setOnInsert"), "profile.address.city") = Num(123)
  /\ res.status = "ok"
  /\ Keys(Get(Forwarded[2], "$set")) = << "name" >>
  /\ ~Has(Get(Forwarded[2], "$setOnInsert"), "profile.address.city")

(***************************************************************************)
(* C30.  A declaration that fails leaves the binding as it was: after       *)
(* withDates, withUser or withSoftDelete has raised on a collection with    *)
(* no schema bound, the flag of that declaration is not set.                *)
(***************************************************************************)
\* the flag the declaration in progress sets
FlagOf(method) ==
  CASE method = "withUser" -> Binding._withUser
    [] method = "withDates" -> Binding._withDates
    [] method = "withSoftDelete" -> Binding._softDelete

C30_FailedDeclarationSetsNothing ==
  (/\ Returned
   /\ call.method \in {"withUser", "withDates", "withSoftDelete"}
   /\ res.status = "error")
  => ~FlagOf(call.method)

\* withSoftDelete has raised for want of a schema, and the flag is set
C30_Reached ==
  /\ Returned
  /\ call.method = "withSoftDelete"
  /\ res.error = TypeError
  /\ Binding._schema.t = "undefined"
  /\ Binding._softDelete
  /\ ~Binding._withUser
  /\ ~Binding._withDates

\* what comes of it: a removeAsync on that collection, which has no schema
\* and no soft-delete fields, sends an update instead of the removal
C30_ReachedRemove ==
  /\ Removing
  /\ Binding._schema.t = "undefined"
  /\ res.status = "ok"
  /\ res.calls[1].method = "updateAsync"

=============================================================================
